---- MODULE Spec2Model ----
(***************************************************************************)
(* State-machine model of the Banca Transilvania statement parser          *)
(* (src/bt.js, extractStatementData) over concrete line texts.             *)
(* Strings are TLA+ strings; Len, SubSeq and \o act on them character by   *)
(* character.  A nullable JavaScript value is modelled as a sequence of    *)
(* length at most one: <<>> is null, <<v>> is the value v.                 *)
(***************************************************************************)
EXTENDS Integers, Sequences, FiniteSets, TLC

null == <<>>
Some(v) == <<v>>

(***************************************************************************)
(* String primitives                                                       *)
(***************************************************************************)
Ch(s, k) == IF k >= 1 /\ k <= Len(s) THEN SubSeq(s, k, k) ELSE ""

Digits == {"0", "1", "2", "3", "4", "5", "6", "7", "8", "9"}
UpperAlpha == "ABCDEFGHIJKLMNOPQRSTUVWXYZ"
LowerAlpha == "abcdefghijklmnopqrstuvwxyz"
UpperSet == {Ch(UpperAlpha, k) : k \in 1..26}

IsDigit(c) == c \in Digits
IsUpper(c) == c \in UpperSet
\* \s of the regular expressions and of String.prototype.trim
Spaces == {" ", "\t", "\r"}
IsSpace(c) == c \in Spaces

\* one character, upper-cased (String.prototype.toUpperCase / the i flag)
ToUpperCh(c) ==
  IF \E k \in 1..26 : Ch(LowerAlpha, k) = c
  THEN Ch(UpperAlpha, CHOOSE k \in 1..26 : Ch(LowerAlpha, k) = c)
  ELSE c

RECURSIVE ToUpper(_)
ToUpper(s) == IF s = "" THEN "" ELSE ToUpperCh(Ch(s, 1)) \o ToUpper(SubSeq(s, 2, Len(s)))

\* s.startsWith(p, k-1): p occurs in s at (1-based) position k
StartsAt(s, p, k) == k >= 1 /\ k + Len(p) - 1 <= Len(s) /\ SubSeq(s, k, k + Len(p) - 1) = p

\* s.includes(p)
Includes(s, p) == \E k \in 1..(Len(s) - Len(p) + 1) : StartsAt(s, p, k)

\* 1-based position of the first occurrence of p in s at or after from, 0 if none
IndexFrom(s, p, from) ==
  IF \E k \in from..(Len(s) - Len(p) + 1) : StartsAt(s, p, k)
  THEN CHOOSE k \in from..(Len(s) - Len(p) + 1) :
         StartsAt(s, p, k) /\ \A j \in from..(k - 1) : ~StartsAt(s, p, j)
  ELSE 0

\* raw.search(/\S|$/): number of leading whitespace characters
LeadingSpaces(s) ==
  IF \A k \in 1..Len(s) : IsSpace(Ch(s, k)) THEN Len(s)
  ELSE (CHOOSE k \in 1..Len(s) : ~IsSpace(Ch(s, k)) /\ \A j \in 1..(k - 1) : IsSpace(Ch(s, j))) - 1

TrailingSpaces(s) ==
  IF \A k \in 1..Len(s) : IsSpace(Ch(s, k)) THEN Len(s)
  ELSE Len(s) - (CHOOSE k \in 1..Len(s) : ~IsSpace(Ch(s, k)) /\ \A j \in (k + 1)..Len(s) : IsSpace(Ch(s, j)))

\* String.prototype.trim
Trim(s) ==
  IF LeadingSpaces(s) = Len(s) THEN ""
  ELSE SubSeq(s, LeadingSpaces(s) + 1, Len(s) - TrailingSpaces(s))

\* end (exclusive) of the maximal run of characters of the set cs that starts at k
RunEnd(s, k, cs) ==
  IF \A j \in k..Len(s) : Ch(s, j) \in cs THEN Len(s) + 1
  ELSE CHOOSE e \in k..Len(s) : Ch(s, e) \notin cs /\ \A j \in k..(e - 1) : Ch(s, j) \in cs

\* start of the maximal run of characters of the set cs that ends at k
RunStart(s, k, cs) ==
  IF \A j \in 1..k : Ch(s, j) \in cs THEN 1
  ELSE (CHOOSE b \in 1..k : Ch(s, b) \notin cs /\ \A j \in (b + 1)..k : Ch(s, j) \in cs) + 1

\* s.replace(/\s+/g, " ")
RECURSIVE CollapseSpaces(_)
CollapseSpaces(s) ==
  IF s = "" THEN ""
  ELSE IF IsSpace(Ch(s, 1))
       THEN " " \o CollapseSpaces(SubSeq(s, RunEnd(s, 1, Spaces), Len(s)))
       ELSE Ch(s, 1) \o CollapseSpaces(SubSeq(s, 2, Len(s)))

\* s.split(sep) for a non-empty separator
RECURSIVE Split(_, _)
Split(s, sep) ==
  LET p == IndexFrom(s, sep, 1)
  IN IF p = 0 THEN <<s>>
     ELSE <<SubSeq(s, 1, p - 1)>> \o Split(SubSeq(s, p + Len(sep), Len(s)), sep)

\* s.replace(/,/g, "")
RECURSIVE StripCommas(_)
StripCommas(s) ==
  IF s = "" THEN ""
  ELSE (IF Ch(s, 1) = "," THEN "" ELSE Ch(s, 1)) \o StripCommas(SubSeq(s, 2, Len(s)))

(***************************************************************************)
(* Numbers: parseFloat and parseAmount (src/bt.js:829-831).  A number is   *)
(* kept exactly as sign, integer part and fraction digits (trailing zeros  *)
(* dropped); NaN is a value of its own.  Exponents and "Infinity" do not   *)
(* occur in statement text and are not modelled.                           *)
(***************************************************************************)
NaN == [nan |-> TRUE, neg |-> FALSE, int |-> 0, frac |-> ""]
Num(neg, int, frac) == [nan |-> FALSE, neg |-> neg, int |-> int, frac |-> frac]

DigitVal(c) == CHOOSE d \in 0..9 : Ch("0123456789", d + 1) = c

RECURSIVE DigitsValue(_, _)
DigitsValue(s, acc) ==
  IF s = "" THEN acc ELSE DigitsValue(SubSeq(s, 2, Len(s)), acc * 10 + DigitVal(Ch(s, 1)))

RECURSIVE StripTrailingZeros(_)
StripTrailingZeros(s) ==
  IF s # "" /\ Ch(s, Len(s)) = "0" THEN StripTrailingZeros(SubSeq(s, 1, Len(s) - 1)) ELSE s

parseFloat(str) ==
  LET t     == SubSeq(str, LeadingSpaces(str) + 1, Len(str))
      neg   == Ch(t, 1) = "-"
      b     == IF Ch(t, 1) \in {"-", "+"} THEN 2 ELSE 1
      ie    == RunEnd(t, b, Digits)
      hasF  == Ch(t, ie) = "."
      fe    == IF hasF THEN RunEnd(t, ie + 1, Digits) ELSE ie
      intS  == SubSeq(t, b, ie - 1)
      fracS == IF hasF THEN SubSeq(t, ie + 1, fe - 1) ELSE ""
  IN IF intS = "" /\ fracS = "" THEN NaN
     ELSE Num(neg, DigitsValue(intS, 0), StripTrailingZeros(fracS))

parseAmount(amountStr) == parseFloat(StripCommas(amountStr))

(***************************************************************************)
(* Regular expressions of extractStatementData (src/bt.js:617-625), each   *)
(* as the leftmost match the JavaScript engine returns.                    *)
(***************************************************************************)
\* /^(\d{2}\/\d{2}\/\d{4})/ anchored at position k
DateAt(s, k) ==
  /\ k + 9 <= Len(s)
  /\ \A j \in {0, 1, 3, 4, 6, 7, 8, 9} : IsDigit(Ch(s, k + j))
  /\ Ch(s, k + 2) = "/"
  /\ Ch(s, k + 5) = "/"

\* dateRegex = /^(\d{2}\/\d{2}\/\d{4})$/
dateRegex(s) == Len(s) = 10 /\ DateAt(s, 1)

DescKeywords == {"PLATA", "INCASARE", "P2P", "CONSTITUIRE", "MATURIZARE", "PROCESARE", "COMISION"}

\* descStart = /^(Plata|Incasare|P2P|Constituire|Maturizare|Procesare|Comision)/i
descStart(s) == \E w \in DescKeywords : Len(w) <= Len(s) /\ ToUpper(SubSeq(s, 1, Len(w))) = w

\* end of the (?:,\d{3})* groups that start at q
RECURSIVE GroupsEnd(_, _)
GroupsEnd(s, q) ==
  IF Ch(s, q) = "," /\ IsDigit(Ch(s, q + 1)) /\ IsDigit(Ch(s, q + 2)) /\ IsDigit(Ch(s, q + 3))
  THEN GroupsEnd(s, q + 4) ELSE q

\* \d{1,3}(?:,\d{3})*\.\d{2} with n leading digits at position k: last position matched, 0 if none
AmountEndWith(s, k, n) ==
  LET q == GroupsEnd(s, k + n)
  IN IF /\ \A j \in k..(k + n - 1) : IsDigit(Ch(s, j))
        /\ Ch(s, q) = "."
        /\ IsDigit(Ch(s, q + 1))
        /\ IsDigit(Ch(s, q + 2))
     THEN q + 2 ELSE 0

AmountEndAt(s, k) ==
  IF AmountEndWith(s, k, 3) > 0 THEN AmountEndWith(s, k, 3)
  ELSE IF AmountEndWith(s, k, 2) > 0 THEN AmountEndWith(s, k, 2)
  ELSE AmountEndWith(s, k, 1)

\* position of the leftmost match of amountRegex at or after from, 0 if none
AmountPos(s, from) ==
  IF \E k \in from..Len(s) : AmountEndAt(s, k) > 0
  THEN CHOOSE k \in from..Len(s) : AmountEndAt(s, k) > 0 /\ \A j \in from..(k - 1) : AmountEndAt(s, j) = 0
  ELSE 0

\* amountRegex = /(\d{1,3}(?:,\d{3})*\.\d{2})/ : line.match(amountRegex), null or the captured text
amountRegex(s) ==
  LET k == AmountPos(s, 1)
  IN IF k = 0 THEN null ELSE Some(SubSeq(s, k, AmountEndAt(s, k)))

\* s.match(/(\d{1,3}(?:,\d{3})*\.\d{2})/g): every match, left to right
RECURSIVE AmountMatchAll(_, _)
AmountMatchAll(s, from) ==
  LET k == AmountPos(s, from)
  IN IF k = 0 THEN <<>>
     ELSE <<SubSeq(s, k, AmountEndAt(s, k))>> \o AmountMatchAll(s, AmountEndAt(s, k) + 1)

\* s.match(/^(\d{1,3}(?:,\d{3})*\.\d{2})$/)
amountOnlyRegex(s) ==
  IF \E n \in 1..3 : AmountEndWith(s, 1, n) = Len(s) /\ Len(s) > 0 THEN Some(s) ELSE null

\* the character classes [A-Z\s], [A-Z0-9] and [\d,.]
UpperOrSpace == UpperSet \cup Spaces
UpperOrDigit == UpperSet \cup Digits
AmountChars == Digits \cup {",", "."}

\* ownerClientRegex = /([A-Z\s]+)Client:\s*(\d+)/ with "Client:" at position q
OwnerClientAt(s, q) ==
  /\ StartsAt(s, "Client:", q)
  /\ q > 1
  /\ Ch(s, q - 1) \in UpperOrSpace
  /\ IsDigit(Ch(s, RunEnd(s, q + 7, Spaces)))

\* line.match(ownerClientRegex): null or the two captured groups
ownerClientRegex(s) ==
  IF \E q \in 1..Len(s) : OwnerClientAt(s, q)
  THEN LET q  == CHOOSE q \in 1..Len(s) : OwnerClientAt(s, q) /\ \A j \in 1..(q - 1) : ~OwnerClientAt(s, j)
           d  == RunEnd(s, q + 7, Spaces)
       IN Some(<<SubSeq(s, RunStart(s, q - 1, UpperOrSpace), q - 1),
                 SubSeq(s, d, RunEnd(s, d, Digits) - 1)>>)
  ELSE null

\* ibanRegex = /Cod IBAN:\s*(RO\d+[A-Z0-9]+)/ with "Cod IBAN:" at position q
IbanAt(s, q) ==
  LET r == RunEnd(s, q + 9, Spaces)
  IN /\ StartsAt(s, "Cod IBAN:", q)
     /\ StartsAt(s, "RO", r)
     /\ IsDigit(Ch(s, r + 2))
     /\ Ch(s, r + 3) \in UpperOrDigit

\* line.match(ibanRegex): null or the captured group
ibanRegex(s) ==
  IF \E q \in 1..Len(s) : IbanAt(s, q)
  THEN LET q == CHOOSE q \in 1..Len(s) : IbanAt(s, q) /\ \A j \in 1..(q - 1) : ~IbanAt(s, j)
           r == RunEnd(s, q + 9, Spaces)
       IN Some(SubSeq(s, r, RunEnd(s, r + 2, UpperOrDigit) - 1))
  ELSE null

\* dailyTurnoverRegex = /(\d{2}\/\d{2}\/\d{4})RULAJ ZI/ : null or the captured date
dailyTurnoverRegex(s) ==
  IF \E k \in 1..Len(s) : DateAt(s, k) /\ StartsAt(s, "RULAJ ZI", k + 10)
  THEN LET k == CHOOSE k \in 1..Len(s) :
                  /\ DateAt(s, k) /\ StartsAt(s, "RULAJ ZI", k + 10)
                  /\ \A j \in 1..(k - 1) : ~(DateAt(s, j) /\ StartsAt(s, "RULAJ ZI", j + 10))
       IN Some(SubSeq(s, k, k + 9))
  ELSE null

\* blockedAmountRegex = /-\s*([\d,.]+)\s*RON\s*aferenta\s*tranzactiei\s*(.*)/ with "-" at k:
\* position where group 2 starts, 0 if no match
BlockedAt(s, k) ==
  LET a == RunEnd(s, k + 1, Spaces)
      b == RunEnd(s, a, AmountChars)
      c == RunEnd(s, b, Spaces)
      d == RunEnd(s, c + 3, Spaces)
      e == RunEnd(s, d + 8, Spaces)
  IN IF /\ Ch(s, k) = "-"
        /\ b > a
        /\ StartsAt(s, "RON", c)
        /\ StartsAt(s, "aferenta", d)
        /\ StartsAt(s, "tranzactiei", e)
     THEN RunEnd(s, e + 11, Spaces) ELSE 0

\* line.match(blockedAmountRegex): null or the two captured groups
blockedAmountRegex(s) ==
  IF \E k \in 1..Len(s) : BlockedAt(s, k) > 0
  THEN LET k == CHOOSE k \in 1..Len(s) : BlockedAt(s, k) > 0 /\ \A j \in 1..(k - 1) : BlockedAt(s, j) = 0
           a == RunEnd(s, k + 1, Spaces)
       IN Some(<<SubSeq(s, a, RunEnd(s, a, AmountChars) - 1), SubSeq(s, BlockedAt(s, k), Len(s))>>)
  ELSE null

\* ownerRegex = /;\s*([^;]+);\s*$/ with the opening ";" at position k: the text must end
\* in ";" (trailing whitespace allowed) and hold no ";" in between
OwnerAt(s, k) ==
  LET e == Len(s) - TrailingSpaces(s)
  IN /\ Ch(s, k) = ";"
     /\ Ch(s, e) = ";"
     /\ k + 1 < e
     /\ \A j \in (k + 1)..(e - 1) : Ch(s, j) # ";"

\* line.match(ownerRegex): null or the captured group (\s* is greedy, the group keeps one
\* character when everything between the semicolons is whitespace)
ownerRegex(s) ==
  IF \E k \in 1..Len(s) : OwnerAt(s, k)
  THEN LET k == CHOOSE k \in 1..Len(s) : OwnerAt(s, k)
           e == Len(s) - TrailingSpaces(s)
           a == RunEnd(s, k + 1, Spaces)
       IN Some(SubSeq(s, IF a >= e THEN e - 1 ELSE a, e - 1))
  ELSE null

endMarkers == {"RULAJ ZI", "SOLD FINAL ZI"}

\* /\d+\s*\/\s*4/ : a digit, optional spaces, "/", optional spaces, "4"
PageNumberAt(s, k) ==
  LET a == RunEnd(s, k + 1, Spaces)
  IN IsDigit(Ch(s, k)) /\ Ch(s, a) = "/" /\ Ch(s, RunEnd(s, a + 1, Spaces)) = "4"

HeaderFooterTexts ==
  {"BANCA TRANSILVANIA", "Info clienti", "BT24@bancatransilvania.ro", "Solicitant:", "Tiparit:",
   "C.U.I.", "SWIFT:", "www.bancatransilvania.ro", "Clasificare BT:"}

isHeaderOrFooterLine(line) ==
  \/ \E t \in HeaderFooterTexts : Includes(line, t)
  \/ \E k \in 1..Len(line) : PageNumberAt(line, k)

\* line.match(/CONT|SOLD ANTERIOR/)
sectionRegex(line) == Includes(line, "CONT") \/ Includes(line, "SOLD ANTERIOR")

(***************************************************************************)
(* Line texts the inputs are built from                                   *)
(***************************************************************************)
MaxBody == 3

\* lines of a statement's transaction section
TxPool ==
  {"SOLD ANTERIOR", "12/05/2024", "Plata c/catre FURNIZOR X REF:12345", "      150.00",
   "     75.50", "RULAJ ZI", "REF: 777 REF:9", "catre; ION POPESCU;", "BANCA TRANSILVANIA", ""}

\* lines of a statement's account information
InfoPool ==
  {"ION POPESCU Client: 998877", "Cod IBAN: RO49AAAA1B31007593840000", "Valuta", "RON",
   "SOLD FINAL CONT", "1,234.56", "12/05/2024RULAJ ZI", "83.960.00", "RULAJ TOTAL CONT",
   "SUME BLOCATE", "TOTAL DISPONIBIL", "- 10.00 RON aferenta tranzactiei POS 1",
   "BANCA TRANSILVANIA", ""}

\* what precedes the enumerated lines: nothing, the section marker, the marker and a date
Preambles == {<<>>, <<"SOLD ANTERIOR">>, <<"SOLD ANTERIOR", "12/05/2024">>}

\* the worked example of the specification, alone and after a section marker, and a day
\* with two transactions
Example == <<"12/05/2024", "Plata c/catre FURNIZOR X REF:12345", "      150.00", "RULAJ ZI">>
MarkedExample == <<"SOLD ANTERIOR">> \o Example
TwoTransactions ==
  <<"SOLD ANTERIOR", "12/05/2024", "Plata c/catre FURNIZOR X REF:12345", "      150.00",
    "Plata c/catre FURNIZOR X REF:12345", "     75.50", "RULAJ ZI">>
Examples == {Example, MarkedExample, TwoTransactions}

\* statements of two more accounts: an income on the next day, and a payment with no date
NextDay ==
  <<"SOLD ANTERIOR", "13/05/2024", "Incasare FURNIZOR X", "      150.00", "SOLD FINAL ZI">>
Undated == <<"SOLD ANTERIOR", "Plata c/catre FURNIZOR X REF:12345", "     75.50">>
Statements == Examples \cup {NextDay, Undated}

\* the lines of a statement's days: dates, description starts, amounts, end markers
DayPool ==
  {"13/05/2024", "Incasare Y", "      20.00", "RULAJ ZI", "catre FURNIZOR", "REF: 7"}

\* the start of a day: its date after a blank line, an open transaction, an emitted
\* transaction
DayPreambles ==
  {<<"SOLD ANTERIOR", "", "12/05/2024">>,
   <<"SOLD ANTERIOR", "12/05/2024", "Plata X", "     5.00">>,
   <<"SOLD ANTERIOR", "12/05/2024", "Plata X", "     5.00", "RULAJ ZI">>}

\* detail lines that satisfy the conditions of several rules at once, and section lines
DetailPool ==
  {"REF:9 10.00 RULAJ ZI", "RULAJ ZI REF: 7; ION;", "SOLD FINAL ZI; ION;", "catre; ION;",
   "catre FURNIZOR", "RULAJ ZI", "Plata in CONT 1.00 REF:1 RULAJ ZI", "SOLD FINAL CONT"}

DetailPreambles ==
  {<<>>, <<"SOLD ANTERIOR", "", "12/05/2024", "Plata X">>,
   <<"SOLD ANTERIOR", "12/05/2024", "Plata X", "     5.00">>}

\* the lines of a blocked-amounts section among those of an open transaction
\* daily turnover markers and the lines that can follow them
DailyPool ==
  {"12/05/2024RULAJ ZI", "13/05/2024RULAJ ZI", "83.960.00", "RON", "",
   "14/05/2024RULAJ ZI BANCA TRANSILVANIA"}

BlockedPool ==
  {"SUME BLOCATE", "TOTAL DISPONIBIL", "- 10.00 RON aferenta tranzactiei POS 1",
   "- 2.50 RON aferenta tranzactiei ATM", "- 1.00 RON aferenta tranzactiei BANCA TRANSILVANIA",
   "      20.00", "RULAJ ZI", "Incasare Y"}

\* an open transaction, alone and followed by the start of a blocked-amounts section
BlockedPreambles ==
  {<<"SOLD ANTERIOR", "", "12/05/2024", "Plata X">>,
   <<"SOLD ANTERIOR", "", "12/05/2024", "Plata X", "SUME BLOCATE",
     "- 2.50 RON aferenta tranzactiei ATM">>}

AllLines ==
  TxPool \cup InfoPool \cup DayPool \cup DetailPool \cup DailyPool \cup BlockedPool
    \cup UNION {{p[k] : k \in DOMAIN p} :
                 p \in Preambles \cup Statements \cup DayPreambles \cup DetailPreambles
                        \cup BlockedPreambles}

(***************************************************************************)
(* Everything the loop body computes from the text of one line alone: the  *)
(* trimmed line, and the result of each match, test and split applied to   *)
(* it, either as lines[i] or as the lookahead line lines[i + 1].           *)
(***************************************************************************)
Scan(raw) ==
  LET line == Trim(raw)
  IN [line               |-> line,
      skip               |-> (line = "" \/ isHeaderOrFooterLine(line)),
      ownerClientMatch   |-> ownerClientRegex(line),
      ibanMatch          |-> ibanRegex(line),
      valuta             |-> Includes(line, "Valuta"),
      soldFinalCont      |-> Includes(line, "SOLD FINAL CONT"),
      dailyTurnoverMatch |-> dailyTurnoverRegex(line),
      rulajTotalCont     |-> Includes(line, "RULAJ TOTAL CONT"),
      sumeBlocate        |-> Includes(line, "SUME BLOCATE"),
      totalDisponibil    |-> Includes(line, "TOTAL DISPONIBIL"),
      blockedAmountMatch |-> blockedAmountRegex(line),
      section            |-> sectionRegex(line),
      dateMatch          |-> dateRegex(line),
      descStart          |-> descStart(line),
      amtMatch           |-> amountRegex(line),
      spaces             |-> LeadingSpaces(raw),
      refParts           |-> IF Includes(line, "REF:") THEN Some(Split(line, "REF:")) ELSE null,
      ownerMatch         |-> ownerRegex(line),
      endMarker          |-> (\E mk \in endMarkers : Includes(line, mk)),
      balanceMatch       |-> amountOnlyRegex(line),
      totalValues        |-> AmountMatchAll(raw, 1)]

\* the scans of the line texts, computed once
ScanTable == [raw \in AllLines |-> Scan(raw)]

Scanned(raw) == ScanTable[raw]

\* lines[i] as the loop body sees it
LineAt(ls, k) == Scanned(ls[k])

\* a lookahead that reads the next line that is not empty
LookaheadSkippingBlanks(ls, k) ==
  IF \E h \in (k + 1)..Len(ls) : ls[h] # ""
  THEN Some(Scanned(ls[CHOOSE h \in (k + 1)..Len(ls) :
                         ls[h] # "" /\ \A g \in (k + 1)..(h - 1) : ls[g] = ""]))
  ELSE null

\* lines[i + 1] behind the guard i + 1 < lines.length (k is 1-based): null past the end
Lookahead(ls, k) == IF k < Len(ls) THEN Some(Scanned(ls[k + 1])) ELSE null

(***************************************************************************)
(* extractStatementData (src/bt.js:588-807)                                *)
(***************************************************************************)
VARIABLES
  lines,                  \* text.split("\n")
  i,                      \* loop index, 1-based (the source counts from 0)
  pc,                     \* "loop" while the for loop runs, "done" after the return
  accountInfo,
  transactions,
  currentDate,
  transaction,
  blockedAmountsSection,
  inTransactionSection,
  threw,                  \* TRUE once a statement of the pass has raised a TypeError
  rule,                   \* history: the branch of the loop body that handled the last line
  open,                   \* history: the lines that built the open transaction
  emitted,                \* history: the same for every transaction of the output list
  shadow,                 \* the same pass over the text with every skipped line emptied
  calls,                  \* the parseBTStatement calls in progress, each with its own locals
  iban,                   \* a call of a function of src/mod-97.js: its arguments and result
  cli                     \* an invocation of the command line of src/bt.js

vars == <<lines, i, pc, accountInfo, transactions, currentDate, transaction,
          blockedAmountsSection, inTransactionSection, threw, rule, open, emitted, shadow,
          calls, iban, cli>>

\* the variables of one pass of extractStatementData
pass == <<lines, i, pc, accountInfo, transactions, currentDate, transaction,
          blockedAmountsSection, inTransactionSection, threw, rule, open, emitted, shadow>>

\* the variables of the other components
others == <<calls, iban, cli>>

\* the result objects and the state tracking as initialized at src/bt.js:592-614
InitAccountInfo ==
  [accountOwner |-> "", clientNumber |-> "", iban |-> "", currency |-> "",
   finalBalance |-> null,
   turnover |-> [total |-> [debit |-> null, credit |-> null], daily |-> <<>>],
   blockedAmounts |-> <<>>]

InitState ==
  [accountInfo |-> InitAccountInfo, transactions |-> <<>>, currentDate |-> null,
   transaction |-> null, blockedAmountsSection |-> FALSE, inTransactionSection |-> FALSE,
   threw |-> FALSE, rule |-> "init"]

\* const [d, m, y] = parts: a missing element is undefined
Destructure(parts, k) == IF k <= Len(parts) THEN parts[k] ELSE "undefined"

\* the date fields joined in their original order
ConvertDateInOrder(date) ==
  LET parts == Split(date, "/")
  IN Destructure(parts, 1) \o "-" \o Destructure(parts, 2) \o "-" \o Destructure(parts, 3)

\* the date conversion of finalizeTransaction: `${y}-${m}-${d}`
ConvertDate(date) ==
  LET parts == Split(date, "/")
  IN Destructure(parts, 3) \o "-" \o Destructure(parts, 2) \o "-" \o Destructure(parts, 1)

\* finalizeTransaction without its amount test
HasAmountAlways(t) == TRUE

\* the condition under which finalizeTransaction commits the open transaction
HasAmount(t) == t.amount # null

\* a push that puts the transaction at the front of the list
pushFront(q, t) == <<t>> \o q

\* transactions.push(transaction)
push(q, t) == Append(q, t)

\* finalizeTransaction (src/bt.js:628-640); transaction.date.split raises on a null date
finalizeTransaction(st) ==
  IF st.transaction # null /\ HasAmount(st.transaction[1])
  THEN LET t == st.transaction[1]
       IN IF t.date = null
          THEN [st EXCEPT !.threw = TRUE]
          ELSE [st EXCEPT
                 !.transactions = push(@, [t EXCEPT
                     !.description = CollapseSpaces(Trim(t.description)),
                     !.date = Some(ConvertDate(t.date[1]))]),
                 !.transaction = null]
  ELSE st

\* if (!line || isHeaderOrFooterLine(line)) continue;
IsSkipped(raw) == Scanned(raw).skip

\* i + 1 < lines.length
HasNext(nx) == nx # null

\* ACCOUNT INFO EXTRACTION (src/bt.js:650-707), one operator per rule; m is the scan of
\* lines[i] and nx the lookahead line lines[i + 1] (read only when HasNext)
OwnerClientRule(ai, m) ==
  IF m.ownerClientMatch # null
  THEN [ai EXCEPT !.accountOwner = Trim(m.ownerClientMatch[1][1]),
                  !.clientNumber = Trim(m.ownerClientMatch[1][2])]
  ELSE ai

IbanRule(ai, m) ==
  IF m.ibanMatch # null THEN [ai EXCEPT !.iban = Trim(m.ibanMatch[1])] ELSE ai

CurrencyApplies(m, nx) == m.valuta /\ HasNext(nx) /\ Len(nx[1].line) >= 3

CurrencyRule(ai, m, nx) ==
  IF CurrencyApplies(m, nx)
  THEN [ai EXCEPT !.currency = SubSeq(nx[1].line, 1, 3)]
  ELSE ai

FinalBalanceApplies(m, nx) == m.soldFinalCont /\ HasNext(nx) /\ nx[1].balanceMatch # null

FinalBalanceRule(ai, m, nx) ==
  IF FinalBalanceApplies(m, nx)
  THEN [ai EXCEPT !.finalBalance = Some(parseAmount(nx[1].balanceMatch[1]))]
  ELSE ai

\* a variant that asks for an amount on the values line
DailyTurnoverAppliesToAmounts(m, nx) ==
  m.dailyTurnoverMatch # null /\ HasNext(nx) /\ Len(nx[1].line) >= 5 /\ nx[1].amtMatch # null

DailyTurnoverApplies(m, nx) ==
  m.dailyTurnoverMatch # null /\ HasNext(nx) /\ Len(nx[1].line) >= 5

\* valuesLine.slice(-5) and valuesLine.slice(0, -5)
DailyValues(date, valuesLine) ==
  [date   |-> date,
   debit  |-> parseAmount(SubSeq(valuesLine, 1, Len(valuesLine) - 5)),
   credit |-> parseAmount(SubSeq(valuesLine, Len(valuesLine) - 4, Len(valuesLine)))]

DailyTurnoverRule(ai, m, nx) ==
  IF DailyTurnoverApplies(m, nx)
  THEN [ai EXCEPT !.turnover.daily = Append(@, DailyValues(m.dailyTurnoverMatch[1], nx[1].line))]
  ELSE ai

TotalTurnoverApplies(m, nx) ==
  m.rulajTotalCont /\ HasNext(nx) /\ Len(nx[1].totalValues) >= 2

TotalTurnoverRule(ai, m, nx) ==
  IF TotalTurnoverApplies(m, nx)
  THEN [ai EXCEPT !.turnover.total.debit = Some(parseAmount(nx[1].totalValues[1])),
                  !.turnover.total.credit = Some(parseAmount(nx[1].totalValues[2]))]
  ELSE ai

AccountInfoRules(ai, m, nx) ==
  TotalTurnoverRule(
    DailyTurnoverRule(
      FinalBalanceRule(
        CurrencyRule(
          IbanRule(
            OwnerClientRule(ai, m), m), m, nx), m, nx), m, nx), m, nx)

\* Process blocked amounts if in section (src/bt.js:720-729)
BlockedAmountRule(ai, m) ==
  IF m.blockedAmountMatch # null
  THEN [ai EXCEPT !.blockedAmounts =
          Append(@, [amount |-> parseAmount(m.blockedAmountMatch[1][1]),
                     description |-> Trim(m.blockedAmountMatch[1][2])])]
  ELSE ai

\* the blocked amounts applied outside the section as well
InBlockedSectionAlways(st) == TRUE

\* if (blockedAmountsSection) { ... } at src/bt.js:721
InBlockedSection(st) == st.blockedAmountsSection

\* the section test left out
OutsideSectionNever(st) == FALSE

\* if (!inTransactionSection) continue;
OutsideSection(st) == ~st.inTransactionSection

\* the threshold taken as strictly more than 6
TypeOfAbove(spaces) == IF spaces > 6 THEN "income" ELSE "expense"

\* transaction.type = spaces >= 6 ? 'income' : 'expense'
TypeOf(spaces) == IF spaces >= 6 THEN "income" ELSE "expense"

\* a description-start line that also sets the reference from its own REF: text
NewTransactionWithRef(date, line) ==
  [date |-> date, description |-> line \o " ", amount |-> null, type |-> null,
   reference |-> IF Includes(line, "REF:") THEN Some(Trim(Split(line, "REF:")[2])) ELSE null,
   accountOwner |-> null]

\* the transaction created by a description-start line (src/bt.js:754-761)
NewTransaction(date, line) ==
  [date |-> date, description |-> line \o " ", amount |-> null, type |-> null,
   reference |-> null, accountOwner |-> null]

\* the description-start rule without its currentDate test
StartsTransactionUndated(st, m) == m.descStart

\* the guard of the description-start rule: currentDate && descStart.test(line)
StartsTransaction(st, m) == st.currentDate # null /\ m.descStart

\* the amount rule setting the amount only while it is still null
SetAmountOnce(t, m) ==
  IF t.amount = null
  THEN [t EXCEPT !.amount = Some(parseAmount(m.amtMatch[1])), !.type = Some(TypeOf(m.spaces))]
  ELSE t

\* the amount rule (src/bt.js:768-775)
SetAmount(t, m) ==
  [t EXCEPT !.amount = Some(parseAmount(m.amtMatch[1])), !.type = Some(TypeOf(m.spaces))]

\* the reference rule appending the line to the description as well
SetReferenceAndAppend(t, m) ==
  [t EXCEPT !.reference = Some(Trim(m.refParts[1][2])), !.description = @ \o m.line \o " "]

\* the reference rule (src/bt.js:778-781)
SetReference(t, m) == [t EXCEPT !.reference = Some(Trim(m.refParts[1][2]))]

\* Process transaction details if we're in a transaction (src/bt.js:766-796)
TransactionDetails(st, m) ==
  LET t == st.transaction[1]
  IN IF m.amtMatch # null
     THEN [st EXCEPT !.transaction = Some(SetAmount(t, m)), !.rule = "amount"]
     ELSE IF m.refParts # null
     THEN IF Len(m.refParts[1]) < 2
          THEN [st EXCEPT !.threw = TRUE, !.rule = "ref"]
          ELSE [st EXCEPT !.transaction = Some(SetReference(t, m)), !.rule = "ref"]
     ELSE LET t1 == IF m.ownerMatch # null
                    THEN [t EXCEPT !.accountOwner = Some(Trim(m.ownerMatch[1]))] ELSE t
              s1 == [st EXCEPT !.transaction = Some(t1)]
          IN IF m.endMarker
             THEN [finalizeTransaction(s1) EXCEPT !.rule = "end"]
             ELSE [s1 EXCEPT !.transaction = Some([t1 EXCEPT !.description = @ \o m.line \o " "]),
                             !.rule = "append"]

\* the section test applied only until the section is on
IsSectionLineOnce(st, m) == m.section /\ ~st.inTransactionSection

\* if (line.match(/CONT|SOLD ANTERIOR/)) at src/bt.js:734
IsSectionLine(st, m) == m.section

\* a date line that also redates the open transaction
SetCurrentDateAndOpen(st, m) ==
  [st EXCEPT !.currentDate = Some(m.line), !.rule = "date",
             !.transaction = IF @ = null THEN @ ELSE Some([@[1] EXCEPT !.date = Some(m.line)])]

\* Date line (src/bt.js:742-746)
SetCurrentDate(st, m) == [st EXCEPT !.currentDate = Some(m.line), !.rule = "date"]

\* a description-start line that drops the open transaction without finalizing it
OpenTransactionWithoutFinalize(st, m) ==
  [st EXCEPT !.transaction = Some(NewTransaction(st.currentDate, m.line)), !.rule = "open"]

\* Description start - begin a new transaction (src/bt.js:749-763)
OpenTransaction(st, m) ==
  [finalizeTransaction(st) EXCEPT !.transaction = Some(NewTransaction(st.currentDate, m.line)),
                                  !.rule = "open"]

\* TRANSACTION EXTRACTION (src/bt.js:731-796) for a line that reached it
TransactionRules(st, m) ==
  IF IsSectionLine(st, m)
  THEN [st EXCEPT !.inTransactionSection = TRUE, !.rule = "section"]
  ELSE IF OutsideSection(st)
  THEN [st EXCEPT !.rule = "outside"]
  ELSE IF m.dateMatch
  THEN SetCurrentDate(st, m)
  ELSE IF StartsTransaction(st, m)
  THEN OpenTransaction(st, m)
  ELSE IF st.transaction # null
  THEN TransactionDetails(st, m)
  ELSE [st EXCEPT !.rule = "none"]

\* the blocked-amounts section never closed
ClosesBlockedSectionNever(st, m) == FALSE

\* if (blockedAmountsSection && line.includes("TOTAL DISPONIBIL")) at src/bt.js:715
ClosesBlockedSection(st, m) == st.blockedAmountsSection /\ m.totalDisponibil

\* a variant in which a blocked-amount line of the section ends its iteration
SectionRulesConsumingBlocked(st, m) ==
  IF m.sumeBlocate
  THEN [st EXCEPT !.blockedAmountsSection = TRUE, !.rule = "blockedOn"]
  ELSE IF ClosesBlockedSection(st, m)
  THEN [st EXCEPT !.blockedAmountsSection = FALSE, !.rule = "blockedOff"]
  ELSE IF InBlockedSection(st) /\ m.blockedAmountMatch # null
  THEN [st EXCEPT !.accountInfo = BlockedAmountRule(@, m), !.rule = "none"]
  ELSE TransactionRules(st, m)

\* the part of an iteration after the account info rules (src/bt.js:709-796)
SectionRules(st, m) ==
  IF m.sumeBlocate
  THEN [st EXCEPT !.blockedAmountsSection = TRUE, !.rule = "blockedOn"]
  ELSE IF ClosesBlockedSection(st, m)
  THEN [st EXCEPT !.blockedAmountsSection = FALSE, !.rule = "blockedOff"]
  ELSE IF InBlockedSection(st)
  THEN TransactionRules([st EXCEPT !.accountInfo = BlockedAmountRule(@, m)], m)
  ELSE TransactionRules(st, m)

\* one iteration of the for loop (src/bt.js:643-797) on the line m with lookahead nx
LoopBody(st, m, nx) ==
  IF m.skip
  THEN [st EXCEPT !.rule = "skip"]
  ELSE SectionRules([st EXCEPT !.accountInfo = AccountInfoRules(@, m, nx)], m)

\* Finalize last transaction if any, and return (src/bt.js:799-806)
Return(st) == [finalizeTransaction(st) EXCEPT !.rule = "return"]

(***************************************************************************)
(* Input texts: a preamble followed by up to MaxBody lines of a pool       *)
(***************************************************************************)
Bodies(pool) == UNION {[1..n -> pool] : n \in 0..MaxBody}

RECURSIVE Join(_)
Join(ls) ==
  IF ls = <<>> THEN ""
  ELSE IF Len(ls) = 1 THEN ls[1]
  ELSE ls[1] \o "\n" \o Join(Tail(ls))

TxTexts == {Join(p \o b) : p \in Preambles, b \in Bodies(TxPool)} \cup {Join(e) : e \in Examples}
InfoTexts == {Join(b) : b \in Bodies(InfoPool)}
DayTexts == {Join(p \o b) : p \in DayPreambles, b \in Bodies(DayPool)}
DetailTexts == {Join(p \o b) : p \in DetailPreambles, b \in Bodies(DetailPool)}
DailyTexts == {Join(b) : b \in Bodies(DailyPool)}
BlockedTexts == {Join(p \o b) : p \in BlockedPreambles, b \in Bodies(BlockedPool)}

(***************************************************************************)
(* The pass as a state machine                                             *)
(***************************************************************************)
State ==
  [accountInfo |-> accountInfo, transactions |-> transactions, currentDate |-> currentDate,
   transaction |-> transaction, blockedAmountsSection |-> blockedAmountsSection,
   inTransactionSection |-> inTransactionSection, threw |-> threw, rule |-> rule]

Becomes(st) ==
  /\ accountInfo' = st.accountInfo
  /\ transactions' = st.transactions
  /\ currentDate' = st.currentDate
  /\ transaction' = st.transaction
  /\ blockedAmountsSection' = st.blockedAmountsSection
  /\ inTransactionSection' = st.inTransactionSection
  /\ threw' = st.threw
  /\ rule' = st.rule

\* the text with every skipped line replaced by an empty line
Blank(ls) == [k \in DOMAIN ls |-> IF IsSkipped(ls[k]) THEN "" ELSE ls[k]]

\* the values an iteration draws from the text: lines[i] and lines[i + 1], for the text
\* itself and for the text with its skipped lines emptied
Reads(ls, k) ==
  [m |-> LineAt(ls, k), nx |-> Lookahead(ls, k),
   bm |-> LineAt(Blank(ls), k), bnx |-> Lookahead(Blank(ls), k)]

NewOpen(k) == [start |-> k, amountLines |-> <<>>, refLines |-> <<>>, triggers |-> <<>>]

\* history of the open transaction after line k took the state from st to nx
OpenAfter(st, nx, k) ==
  IF nx.rule = "open" THEN Some(NewOpen(k))
  ELSE IF nx.transaction = null \/ open = null THEN null
  ELSE IF nx.rule = "amount" THEN Some([open[1] EXCEPT !.amountLines = Append(@, k)])
  ELSE IF nx.rule = "ref" THEN Some([open[1] EXCEPT !.refLines = Append(@, k)])
  ELSE IF nx.rule \in {"end", "return"} THEN Some([open[1] EXCEPT !.triggers = Append(@, k)])
  ELSE open

EmittedAfter(st, nx) ==
  IF Len(nx.transactions) > Len(st.transactions) THEN emitted \o open ELSE emitted

Record(st, nx, k) ==
  /\ open' = OpenAfter(st, nx, k)
  /\ emitted' = EmittedAfter(st, nx)

InitWith(texts) ==
  /\ \E text \in texts : lines = Split(text, "\n")
  /\ i = 1
  /\ pc = "loop"
  /\ accountInfo = InitState.accountInfo
  /\ transactions = InitState.transactions
  /\ currentDate = InitState.currentDate
  /\ transaction = InitState.transaction
  /\ blockedAmountsSection = InitState.blockedAmountsSection
  /\ inTransactionSection = InitState.inTransactionSection
  /\ threw = InitState.threw
  /\ rule = InitState.rule
  /\ open = null
  /\ emitted = <<>>
  /\ shadow = InitState
  /\ calls = <<>>
  /\ iban = null
  /\ cli = null

Init == InitWith(TxTexts)
InitInfo == InitWith(InfoTexts)
InitDay == InitWith(DayTexts)
InitDetail == InitWith(DetailTexts)
InitDaily == InitWith(DailyTexts)
InitBlocked == InitWith(BlockedTexts)

Iterate ==
  \E r \in {Reads(lines, i)} :
    /\ \E st \in {LoopBody(State, r.m, r.nx)} : Becomes(st) /\ Record(State, st, i)
    /\ shadow' = LoopBody(shadow, r.bm, r.bnx)
    /\ i' = i + 1
    /\ UNCHANGED <<lines, pc>>
    /\ UNCHANGED others

\* an iteration that ends at the first continue (src/bt.js:648)
SkipLine ==
  /\ pc = "loop" /\ ~threw
  /\ i <= Len(lines)
  /\ IsSkipped(lines[i])
  /\ Iterate

\* an iteration that runs the extraction rules (src/bt.js:650-796)
ProcessLine ==
  /\ pc = "loop" /\ ~threw
  /\ i <= Len(lines)
  /\ ~IsSkipped(lines[i])
  /\ Iterate

\* loop exit, final finalizeTransaction and return (src/bt.js:799-806)
Finish ==
  /\ pc = "loop" /\ ~threw
  /\ i > Len(lines)
  /\ \E st \in {Return(State)} : Becomes(st) /\ Record(State, st, i)
  /\ shadow' = Return(shadow)
  /\ pc' = "done"
  /\ UNCHANGED <<lines, i>>
  /\ UNCHANGED others

Next == SkipLine \/ ProcessLine \/ Finish

Spec == Init /\ [][Next]_vars
SpecInfo == InitInfo /\ [][Next]_vars
SpecDay == InitDay /\ [][Next]_vars
SpecDetail == InitDetail /\ [][Next]_vars
SpecDaily == InitDaily /\ [][Next]_vars
SpecBlocked == InitBlocked /\ [][Next]_vars

TypeOK ==
  /\ i \in 1..(Len(lines) + 1)
  /\ pc \in {"loop", "done"}
  /\ Len(emitted) = Len(transactions)
  /\ (open = null) = (transaction = null)

(***************************************************************************)
(* parseBTStatement (src/bt.js:10-31): calls in progress at the same time. *)
(* A call suspends once, at await pdf(dataBuffer); the steps of the pass   *)
(* that follows are interleaved here line by line, which includes every    *)
(* order the event loop can produce.                                       *)
(***************************************************************************)
Calls == {1, 2}

ParTexts == {Join(e) : e \in Statements}

\* the pass of no call: the variables of extractStatementData at rest
PassIdle ==
  /\ lines = <<>>
  /\ i = 1
  /\ pc = "done"
  /\ accountInfo = InitState.accountInfo
  /\ transactions = InitState.transactions
  /\ currentDate = InitState.currentDate
  /\ transaction = InitState.transaction
  /\ blockedAmountsSection = InitState.blockedAmountsSection
  /\ inTransactionSection = InitState.inTransactionSection
  /\ threw = InitState.threw
  /\ rule = InitState.rule
  /\ open = null
  /\ emitted = <<>>
  /\ shadow = InitState

\* a call of parseBTStatement(file) suspended at await pdf(dataBuffer)
NewCall(text) ==
  [text |-> text, pc |-> "await", lines |-> <<>>, i |-> 1, st |-> InitState, overlap |-> FALSE]

InitPar ==
  /\ PassIdle
  /\ calls \in [Calls -> {NewCall(text) : text \in ParTexts}]
  /\ iban = null
  /\ cli = null

\* a variant in which currentDate is declared once for the module, not once per call
LocalsWithModuleDate(cs, c) == [cs[c].st EXCEPT !.currentDate = cs[1].st.currentDate]

\* the state a call's statements read and write: its own declarations (src/bt.js:592-614)
Locals(cs, c) == cs[c].st

\* some other call is in the middle of its pass
Overlaps(c) == \E d \in Calls \ {c} : calls[d].pc = "loop" /\ calls[d].i > 1

\* the pdf promise resolves: text = data.text, and extractStatementData starts
Resolve(c) ==
  /\ calls[c].pc = "await"
  /\ calls' = [calls EXCEPT ![c].pc = "loop", ![c].lines = Split(calls[c].text, "\n"),
                            ![c].i = 1, ![c].st = InitState]
  /\ UNCHANGED <<pass, iban, cli>>

\* one iteration of the call's for loop
LineStep(c) ==
  /\ calls[c].pc = "loop"
  /\ calls[c].i <= Len(calls[c].lines)
  /\ \E st \in {Locals(calls, c)}, m \in {LineAt(calls[c].lines, calls[c].i)},
        nx \in {Lookahead(calls[c].lines, calls[c].i)} :
       calls' = [calls EXCEPT ![c].st = LoopBody(st, m, nx), ![c].i = @ + 1,
                              ![c].overlap = @ \/ Overlaps(c)]
  /\ UNCHANGED <<pass, iban, cli>>

\* the call's loop exit, last finalizeTransaction and return
ReturnStep(c) ==
  /\ calls[c].pc = "loop"
  /\ calls[c].i > Len(calls[c].lines)
  /\ \E st \in {Locals(calls, c)} :
       calls' = [calls EXCEPT ![c].st = Return(st), ![c].pc = "done"]
  /\ UNCHANGED <<pass, iban, cli>>

NextPar == \E c \in Calls : Resolve(c) \/ LineStep(c) \/ ReturnStep(c)

SpecPar == InitPar /\ [][NextPar]_vars

\* extractStatementData(text) run from start to end with nothing in between
RECURSIVE RunFrom(_, _, _)
RunFrom(st, ls, k) ==
  IF k > Len(ls) THEN Return(st)
  ELSE RunFrom(LoopBody(st, LineAt(ls, k), Lookahead(ls, k)), ls, k + 1)

\* return { accountInfo, transactions }
Output(st) == [accountInfo |-> st.accountInfo, transactions |-> st.transactions]

(***************************************************************************)
(* IBAN validation (src/mod-97.js).  A call either returns a value or      *)
(* throws: its outcome is [threw, value].  A result object is a record of  *)
(* all five fields, a field that is absent or null being null.             *)
(***************************************************************************)
Returned(v) == [threw |-> FALSE, value |-> v]
Thrown == [threw |-> TRUE, value |-> null]

Result(isValid, error, warning, bankCode, formatted) ==
  [isValid |-> isValid, error |-> error, warning |-> warning, bankCode |-> bankCode,
   formatted |-> formatted]

\* { isValid: false, error }
Invalid(error) == Result(FALSE, Some(error), null, null, null)

\* the characters \s matches, among those of the inputs
Whitespace == Spaces \cup {"\n"}

UpperOrDigitSet == UpperSet \cup Digits

AllIn(s, cs) == \A k \in 1..Len(s) : Ch(s, k) \in cs

\* s.replace(/[cs]/g, "")
RECURSIVE RemoveChars(_, _)
RemoveChars(s, cs) ==
  IF s = "" THEN ""
  ELSE IF Ch(s, 1) \in cs THEN RemoveChars(SubSeq(s, 2, Len(s)), cs)
  ELSE Ch(s, 1) \o RemoveChars(SubSeq(s, 2, Len(s)), cs)

\* s.substring(a, b) for 0 <= a <= b, and s.substring(a)
substring(s, a, b) ==
  IF a >= Len(s) THEN "" ELSE SubSeq(s, a + 1, IF b < Len(s) THEN b ELSE Len(s))
substringFrom(s, a) == substring(s, a, Len(s))

\* LETTER_TO_NUMBER[char].toString(): A is 10, ..., Z is 35
LETTER_TO_NUMBER(c) == ToString(9 + CHOOSE k \in 1..26 : Ch(UpperAlpha, k) = c)

RECURSIVE convertLettersToNumbers(_)
convertLettersToNumbers(str) ==
  IF str = "" THEN ""
  ELSE (IF IsUpper(Ch(str, 1)) THEN LETTER_TO_NUMBER(Ch(str, 1)) ELSE Ch(str, 1))
         \o convertLettersToNumbers(SubSeq(str, 2, Len(str)))

\* BigInt(numStr[i]): a digit is its value, white space is 0n, anything else is a SyntaxError
BigIntOf(c) ==
  IF IsDigit(c) THEN Returned(DigitVal(c))
  ELSE IF c \in Whitespace THEN Returned(0)
  ELSE Thrown

\* the loop from character k on; remainder is the BigInt in 0..96 computed so far
RECURSIVE Mod97From(_, _, _)
Mod97From(numStr, k, remainder) ==
  IF k > Len(numStr) \/ remainder \notin 0..96 THEN Returned(remainder)
  ELSE IF BigIntOf(Ch(numStr, k)).threw THEN Thrown
  ELSE Mod97From(numStr, k + 1, (remainder * 10 + BigIntOf(Ch(numStr, k)).value) % 97)

bigIntMod97(numStr) == Mod97From(numStr, 1, 0)

\* cleanIban.replace(/(.{4})/g, "$1 "): a space after every complete group of four
RECURSIVE GroupsOfFour(_)
GroupsOfFour(s) ==
  IF Len(s) < 4 THEN s ELSE SubSeq(s, 1, 4) \o " " \o GroupsOfFour(SubSeq(s, 5, Len(s)))

\* a variant without toUpperCase
formatIbanKeepingCase(str) ==
  IF str = "" THEN ""
  ELSE Trim(GroupsOfFour(RemoveChars(str, Whitespace)))

formatIban(str) ==
  IF str = "" THEN ""
  ELSE Trim(GroupsOfFour(ToUpper(RemoveChars(str, Whitespace))))

\* a variant without toUpperCase
cleanIbanKeepingCase(str) == RemoveChars(str, Whitespace \cup {"-"})

cleanIban(str) == ToUpper(RemoveChars(str, Whitespace \cup {"-"}))

LengthError(n) == "IBAN must be 24 characters long (current: " \o ToString(n) \o ")"

\* a variant that looks at the country code before the length
StructureCountryFirst(cleanedIban) ==
  IF ~StartsAt(cleanedIban, "RO", 1)
  THEN Invalid("IBAN must start with RO for Romanian accounts")
  ELSE IF Len(cleanedIban) # 24
  THEN Invalid(LengthError(Len(cleanedIban)))
  ELSE IF ~AllIn(substring(cleanedIban, 2, 4), Digits)
  THEN Invalid("Check digits (positions 3-4) must be numeric")
  ELSE IF ~AllIn(substring(cleanedIban, 4, 8), UpperSet)
  THEN Invalid("Bank code (positions 5-8) must be 4 uppercase letters")
  ELSE IF ~AllIn(substringFrom(cleanedIban, 8), UpperOrDigitSet)
  THEN Invalid("Account identifier must be 16 alphanumeric characters")
  ELSE Result(TRUE, null, null, null, null)

\* the checks on the cleaned IBAN, in the order of the source
StructureOf(cleanedIban) ==
  IF Len(cleanedIban) # 24
  THEN Invalid(LengthError(Len(cleanedIban)))
  ELSE IF ~StartsAt(cleanedIban, "RO", 1)
  THEN Invalid("IBAN must start with RO for Romanian accounts")
  ELSE IF ~AllIn(substring(cleanedIban, 2, 4), Digits)
  THEN Invalid("Check digits (positions 3-4) must be numeric")
  ELSE IF ~AllIn(substring(cleanedIban, 4, 8), UpperSet)
  THEN Invalid("Bank code (positions 5-8) must be 4 uppercase letters")
  ELSE IF ~AllIn(substringFrom(cleanedIban, 8), UpperOrDigitSet)
  THEN Invalid("Account identifier must be 16 alphanumeric characters")
  ELSE Result(TRUE, null, null, null, null)

validateRomanianIbanStructure(str) == StructureOf(cleanIban(str))

\* a variant that subtracts the remainder from 97
CheckDigitsFrom97(remainder) ==
  IF 97 - remainder < 10 THEN "0" \o ToString(97 - remainder) ELSE ToString(97 - remainder)

\* const checkDigits = 98 - remainder; checkDigits.toString().padStart(2, "0")
CheckDigitsOf(remainder) ==
  IF 98 - remainder < 10 THEN "0" \o ToString(98 - remainder) ELSE ToString(98 - remainder)

\* artificialIban.substring(4) + artificialIban.substring(0, 4)
Rearranged(str) == substringFrom(str, 4) \o substring(str, 0, 4)

Mod97Of(str) == bigIntMod97(convertLettersToNumbers(Rearranged(str)))

calculateIbanCheckDigits(countryCode, bankCode, accountId) ==
  IF Mod97Of(countryCode \o "00" \o bankCode \o accountId).threw THEN Thrown
  ELSE Returned(CheckDigitsOf(Mod97Of(countryCode \o "00" \o bankCode \o accountId).value))

ChecksumOf(cleanedIban) ==
  IF Mod97Of(cleanedIban).threw THEN Thrown ELSE Returned(Mod97Of(cleanedIban).value = 1)

validateIbanChecksum(str) == ChecksumOf(cleanIban(str))

ROMANIAN_BANK_CODES ==
  {"RNCB", "BRDE", "BTRL", "INGB", "RZBR", "BFER", "CECEB", "CARP", "PIRB", "BACX", "OTPV",
   "CRCO", "FTSB", "ALBZ", "UGBI", "BPOS", "VNBC", "TREZ", "VIRL", "DAFB", "MMEB", "SBIU",
   "BREL", "PORL", "REVO"}

isKnownBank(bankCode) == bankCode \in ROMANIAN_BANK_CODES

UnknownBankWarning(bankCode) ==
  "Bank code " \o bankCode \o " is not in our dataset of known Romanian banks"

\* a variant in which a bank code outside the list makes the IBAN invalid
ValidResultForKnownBank(cleanedIban, bankCode) ==
  IF ~isKnownBank(bankCode) THEN Invalid(UnknownBankWarning(bankCode))
  ELSE Result(TRUE, null, null, Some(bankCode), Some(formatIban(cleanedIban)))

\* the object validateIban returns when the structure and the checksum are valid
ValidResult(cleanedIban, bankCode) ==
  Result(TRUE, null,
         IF ~isKnownBank(bankCode) THEN Some(UnknownBankWarning(bankCode)) ELSE null,
         Some(bankCode), Some(formatIban(cleanedIban)))

\* validateIban after the test of !iban, on the cleaned IBAN
ValidateCleaned(cleanedIban) ==
  IF ~validateRomanianIbanStructure(cleanedIban).isValid
  THEN Returned(validateRomanianIbanStructure(cleanedIban))
  ELSE IF validateIbanChecksum(cleanedIban).threw THEN Thrown
  ELSE IF ~validateIbanChecksum(cleanedIban).value THEN Returned(Invalid("Invalid IBAN checksum"))
  ELSE Returned(ValidResult(cleanedIban, substring(cleanedIban, 4, 8)))

validateIban(str) ==
  IF str = "" THEN Returned(Invalid("IBAN is required"))
  ELSE ValidateCleaned(cleanIban(str))

\* { isValid: true, error: null }
ValidSoFar == Result(TRUE, null, null, null, null)

\* a variant that never runs the full validation
RealTimeWithoutChecksum(cleanedIban) ==
  IF Len(cleanedIban) >= 2 /\ ~StartsAt(cleanedIban, "RO", 1)
  THEN Returned(Invalid("IBAN must start with RO"))
  ELSE IF Len(cleanedIban) >= 4 /\ ~AllIn(substring(cleanedIban, 2, 4), Digits)
  THEN Returned(Invalid("Check digits must be numeric"))
  ELSE IF Len(cleanedIban) >= 8 /\ ~AllIn(substring(cleanedIban, 4, 8), UpperSet)
  THEN Returned(Invalid("Bank code must be 4 uppercase letters"))
  ELSE IF Len(cleanedIban) > 8 /\ ~AllIn(substringFrom(cleanedIban, 8), UpperOrDigitSet)
  THEN Returned(Invalid("Account identifier can only contain letters and numbers"))
  ELSE IF Len(cleanedIban) > 24
  THEN Returned(Invalid("IBAN cannot exceed 24 characters"))
  ELSE Returned(ValidSoFar)

\* validateIbanRealTime after the test of !iban, on the cleaned IBAN
RealTimeCleaned(cleanedIban) ==
  IF Len(cleanedIban) >= 2 /\ ~StartsAt(cleanedIban, "RO", 1)
  THEN Returned(Invalid("IBAN must start with RO"))
  ELSE IF Len(cleanedIban) >= 4 /\ ~AllIn(substring(cleanedIban, 2, 4), Digits)
  THEN Returned(Invalid("Check digits must be numeric"))
  ELSE IF Len(cleanedIban) >= 8 /\ ~AllIn(substring(cleanedIban, 4, 8), UpperSet)
  THEN Returned(Invalid("Bank code must be 4 uppercase letters"))
  ELSE IF Len(cleanedIban) > 8 /\ ~AllIn(substringFrom(cleanedIban, 8), UpperOrDigitSet)
  THEN Returned(Invalid("Account identifier can only contain letters and numbers"))
  ELSE IF Len(cleanedIban) > 24
  THEN Returned(Invalid("IBAN cannot exceed 24 characters"))
  ELSE IF Len(cleanedIban) = 24
  THEN validateIban(cleanedIban)
  ELSE Returned(ValidSoFar)

\* a variant that checks the string as typed, without cleaning it
validateIbanRealTimeUncleaned(str) ==
  IF str = "" THEN Returned(ValidSoFar)
  ELSE RealTimeCleaned(str)

validateIbanRealTime(str) ==
  IF str = "" THEN Returned(ValidSoFar)
  ELSE RealTimeCleaned(cleanIban(str))

(***************************************************************************)
(* Calls of the exported functions on concrete strings.  Every call is     *)
(* made on a string x and on a variant y of x that differs from it in      *)
(* letter case and white space only.                                       *)
(***************************************************************************)
MaxOver == 2

ValidIbans == {"RO49AAAA1B31007593840000", "RO02BTRL0075938400001234"}

Replacements == {"0", "A", "a", "!", "-"}

Replaced(s, p, c) == SubSeq(s, 1, p - 1) \o c \o SubSeq(s, p + 1, Len(s))

\* an IBAN with one character replaced
Perturbed == {Replaced(v, p, c) : v \in ValidIbans, p \in 1..24, c \in Replacements}

\* what has been typed of an IBAN so far, with and without a wrong character
Typed ==
  {SubSeq(v, 1, n) : v \in ValidIbans \cup {Replaced("RO49AAAA1B31007593840000", p, "!") : p \in 1..24},
                     n \in 0..24}

Overlong == {v \o SubSeq("0000000000", 1, n) : v \in ValidIbans, n \in 1..MaxOver}

Specials == {"", " ", "-", "!", "RO49-AAAA", "RO49 AAAA-1B31 0075-9384 0000", "ro 49"}

IbanStrings == ValidIbans \cup Perturbed \cup Typed \cup Overlong \cup Specials

ToLowerCh(c) ==
  IF \E k \in 1..26 : Ch(UpperAlpha, k) = c
  THEN Ch(LowerAlpha, CHOOSE k \in 1..26 : Ch(UpperAlpha, k) = c)
  ELSE c

RECURSIVE ToLower(_)
ToLower(s) == IF s = "" THEN "" ELSE ToLowerCh(Ch(s, 1)) \o ToLower(SubSeq(s, 2, Len(s)))

\* s with white space after every second character
RECURSIVE Spaced(_)
Spaced(s) == IF Len(s) <= 2 THEN s ELSE SubSeq(s, 1, 2) \o " " \o Spaced(SubSeq(s, 3, Len(s)))

\* strings that differ from s in letter case and white space only
Variants(s) == {s, ToLower(s), Spaced(s), " " \o ToLower(Spaced(s)) \o "\n"}

Countries == {"RO", "ro"}
BankCodes == {"AAAA", "BTRL", "btrl", "RNCB"}
AccountIds ==
  {"00759384000012" \o a \o b : a, b \in Digits}
    \cup {"1B31007593840000", "1b31007593840000", "ZZZZZZZZZZZZZZZZ"}

\* the two spellings of one IBAN in the specification's example
SpacedExample == "RO49 AAAA 1B31 0075 9384 0000"
LowerExample == "ro49aaaa1b3100759384 0000"

\* a call about to be made: on a string and its variant, or on the parts of an IBAN
OnStrings(x, y) == [fn |-> "none", kind |-> "string", x |-> x, y |-> y, rx |-> null, ry |-> null]
OnParts(parts) == [fn |-> "none", kind |-> "parts", x |-> parts, y |-> parts, rx |-> null, ry |-> null]

InitIban ==
  /\ PassIdle
  /\ calls = <<>>
  /\ cli = null
  /\ \/ \E x \in IbanStrings : \E y \in Variants(x) : iban = OnStrings(x, y)
     \/ iban = OnStrings(SpacedExample, LowerExample)

InitParts ==
  /\ PassIdle
  /\ calls = <<>>
  /\ cli = null
  /\ iban \in {OnParts(<<c, b, a>>) : c \in Countries, b \in BankCodes, a \in AccountIds}
\* the call of fn made on both strings, with outcomes rx and ry
Called(fn, rx, ry) ==
  /\ iban' = [iban EXCEPT !.fn = fn, !.rx = rx, !.ry = ry]
  /\ UNCHANGED <<pass, calls, cli>>

Callable(kind) == iban # null /\ iban.fn = "none" /\ iban.kind = kind

CallCleanIban ==
  /\ Callable("string")
  /\ Called("cleanIban", Returned(cleanIban(iban.x)), Returned(cleanIban(iban.y)))

CallFormatIban ==
  /\ Callable("string")
  /\ Called("formatIban", Returned(formatIban(iban.x)), Returned(formatIban(iban.y)))

CallValidateStructure ==
  /\ Callable("string")
  /\ Called("validateRomanianIbanStructure", Returned(validateRomanianIbanStructure(iban.x)),
            Returned(validateRomanianIbanStructure(iban.y)))

CallValidateChecksum ==
  /\ Callable("string")
  /\ Called("validateIbanChecksum", validateIbanChecksum(iban.x), validateIbanChecksum(iban.y))

CallValidateIban ==
  /\ Callable("string")
  /\ Called("validateIban", validateIban(iban.x), validateIban(iban.y))

CallValidateRealTime ==
  /\ Callable("string")
  /\ Called("validateIbanRealTime", validateIbanRealTime(iban.x), validateIbanRealTime(iban.y))

\* `${countryCode}${checkDigits}${bankCode}${accountId}`
CompleteIban(countryCode, checkDigits, bankCode, accountId) ==
  countryCode \o checkDigits \o bankCode \o accountId

\* the outcome of verifying the complete IBAN built with the check digits
Verified(countryCode, checkDigits, bankCode, accountId) ==
  IF validateIbanChecksum(CompleteIban(countryCode, checkDigits, bankCode, accountId)).threw
  THEN Thrown
  ELSE Returned(
         [checkDigits |-> checkDigits,
          calculatedIban |-> CompleteIban(countryCode, checkDigits, bankCode, accountId),
          checkResult |->
            validateIbanChecksum(CompleteIban(countryCode, checkDigits, bankCode, accountId)).value])

\* the check digits of the parts, the complete IBAN and its checksum verification
\* (src/mod-97.js:333-344)
Calculated(countryCode, bankCode, accountId) ==
  IF calculateIbanCheckDigits(countryCode, bankCode, accountId).threw THEN Thrown
  ELSE Verified(countryCode, calculateIbanCheckDigits(countryCode, bankCode, accountId).value,
                bankCode, accountId)

CallCalculate ==
  /\ Callable("parts")
  /\ \E r \in {Calculated(ToUpper(iban.x[1]), ToUpper(iban.x[2]), ToUpper(iban.x[3]))} :
       Called("calculateIbanCheckDigits", r, r)

NextIban ==
  \/ CallCleanIban
  \/ CallFormatIban
  \/ CallValidateStructure
  \/ CallValidateChecksum
  \/ CallValidateIban
  \/ CallValidateRealTime
  \/ CallCalculate

SpecIban == (InitIban \/ InitParts) /\ [][NextIban]_vars

(***************************************************************************)
(* validateIbanRealTime called along a typing sequence: the caller passes  *)
(* the text of the input field after every character typed.  x is the text *)
(* being typed, y what has been typed of it, rx the outcome of the call on *)
(* y, and ry a history: the first cleaned text shorter than 24 characters  *)
(* that was rejected.                                                      *)
(***************************************************************************)
HyphenatedExample == "RO49-AAAA-1B31-0075-9384-0000"

TypingTargets ==
  ValidIbans \cup Perturbed \cup Overlong \cup {SpacedExample, LowerExample, HyphenatedExample}

Accepted(outcome) == ~outcome.threw /\ outcome.value.isValid

Typing(x, y, rx, ry) == [fn |-> "typing", kind |-> "typing", x |-> x, y |-> y, rx |-> rx, ry |-> ry]

InitTyping ==
  /\ PassIdle
  /\ calls = <<>>
  /\ cli = null
  /\ \E x \in TypingTargets : iban = Typing(x, "", validateIbanRealTime(""), null)

\* the first rejected text after the call on the text typed, whose outcome is outcome
FirstRejected(typed, outcome) ==
  IF iban.ry = null /\ ~Accepted(outcome) /\ Len(cleanIban(typed)) < 24
  THEN Some(cleanIban(typed))
  ELSE iban.ry

\* one more character is typed and validateIbanRealTime is called on the text
TypeCharacter ==
  /\ iban # null /\ iban.kind = "typing"
  /\ Len(iban.y) < Len(iban.x)
  /\ \E typed \in {SubSeq(iban.x, 1, Len(iban.y) + 1)} :
       \E outcome \in {validateIbanRealTime(typed)} :
         iban' = Typing(iban.x, typed, outcome, FirstRejected(typed, outcome))
  /\ UNCHANGED <<pass, calls, cli>>

SpecTyping == InitTyping /\ [][TypeCharacter]_vars

(***************************************************************************)
(* The command line of src/bt.js (836-924).  The file system and the PDF   *)
(* extraction are the environment: each read, extraction and write either  *)
(* succeeds or fails.  errors is a history of the failures that happened.  *)
(***************************************************************************)
MaxArgs == 3

ArgWords == {"-h", "-o", "-t", "in.pdf", "out.json"}
ArgLists == UNION {[1..n -> ArgWords] : n \in 0..MaxArgs}

\* args.length === 0 || args.includes("-h") || args.includes("--help")
WantsHelp(args) == Len(args) = 0 \/ \E k \in 1..Len(args) : args[k] \in {"-h", "--help"}

\* args[i + 1], undefined past the end (k is 1-based)
ArgAfter(args, k) == IF k < Len(args) THEN Some(args[k + 1]) ELSE null

\* the option loop (src/bt.js:859-868) from argument k on
RECURSIVE ParseArgs(_, _, _)
ParseArgs(args, k, opts) ==
  IF k > Len(args) THEN opts
  ELSE IF args[k] \in {"-o", "--output"}
  THEN ParseArgs(args, k + 2, [opts EXCEPT !.outputFile = ArgAfter(args, k)])
  ELSE IF args[k] \in {"-t", "--text"}
  THEN ParseArgs(args, k + 1, [opts EXCEPT !.saveText = TRUE])
  ELSE IF opts.inputFile = null /\ ~StartsAt(args[k], "-", 1)
  THEN ParseArgs(args, k + 1, [opts EXCEPT !.inputFile = Some(args[k])])
  ELSE ParseArgs(args, k + 1, opts)

NoOptions == [outputFile |-> null, saveText |-> FALSE, inputFile |-> null]

NewInvocation(args) ==
  [args |-> args, pc |-> "start", opts |-> NoOptions, stderr |-> <<>>, stdout |-> <<>>,
   exit |-> null, errors |-> {}]

\* console.error(message); process.exit(1)
Fatal(c, message, error) ==
  [c EXCEPT !.stderr = Append(@, message), !.exit = Some(1), !.pc = "exited",
            !.errors = @ \cup {error}]

\* a variant of the catch that reports the error and lets the process end normally
CatchProcessingWithoutExit(c, error) ==
  [c EXCEPT !.stderr = Append(@, "Error processing file"), !.exit = Some(0), !.pc = "exited",
            !.errors = @ \cup {error}]

\* catch (err) of the processing (src/bt.js:919-922)
CatchProcessing(c, error) == Fatal(c, "Error processing file", error)

\* the script up to the first await: help, options, the checks of the input file, and
\* readFileSync (src/bt.js:838-888)
MainFrom(c, opts, exists, readable) ==
  IF WantsHelp(c.args)
  THEN [c EXCEPT !.stdout = Append(@, "usage"), !.exit = Some(0), !.pc = "exited"]
  ELSE IF opts.inputFile = null
  THEN Fatal([c EXCEPT !.opts = opts], "Error: No input file specified", "noInput")
  ELSE IF ~exists
  THEN Fatal([c EXCEPT !.opts = opts], "Error: Input file not found", "notFound")
  ELSE IF ~readable
  THEN CatchProcessing([c EXCEPT !.opts = opts], "read")
  ELSE [c EXCEPT !.opts = opts, !.pc = "awaitPdf"]

\* Save extracted text if requested (src/bt.js:891-899)
SaveText(c, written) ==
  IF ~c.opts.saveText THEN c
  ELSE IF written THEN [c EXCEPT !.stdout = Append(@, "Raw text saved")]
  ELSE [c EXCEPT !.stderr = Append(@, "Error saving text file"), !.errors = @ \cup {"writeText"}]

\* Output results (src/bt.js:906-918), after which the script ends
OutputResults(c, written) ==
  IF c.opts.outputFile = null
  THEN [c EXCEPT !.stdout = Append(@, "json"), !.exit = Some(0), !.pc = "exited"]
  ELSE IF written
  THEN [c EXCEPT !.stdout = Append(@, "Results saved"), !.exit = Some(0), !.pc = "exited"]
  ELSE [c EXCEPT !.stderr = Append(@, "Error saving output file"),
                 !.stdout = Append(@, "json"), !.exit = Some(0), !.pc = "exited",
                 !.errors = @ \cup {"writeOutput"}]

InitCli ==
  /\ PassIdle
  /\ calls = <<>>
  /\ iban = null
  /\ \E args \in ArgLists : cli = NewInvocation(args)

Main ==
  /\ cli.pc = "start"
  /\ \E exists, readable \in BOOLEAN :
       cli' = MainFrom(cli, ParseArgs(cli.args, 1, NoOptions), exists, readable)
  /\ UNCHANGED <<pass, calls, iban>>

\* await pdf(dataBuffer) settles; on success the text is saved if requested and
\* parseBTStatement(dataBuffer) is called and awaited
PdfSettled ==
  /\ cli.pc = "awaitPdf"
  /\ \E extracted, written \in BOOLEAN :
       cli' = IF ~extracted THEN CatchProcessing(cli, "pdf")
              ELSE [SaveText(cli, written) EXCEPT !.pc = "awaitParse"]
  /\ UNCHANGED <<pass, calls, iban>>

\* await parseBTStatement(dataBuffer) settles; on success the result is written out
ParseSettled ==
  /\ cli.pc = "awaitParse"
  /\ \E parsed, written \in BOOLEAN :
       cli' = IF ~parsed THEN CatchProcessing(cli, "pdf") ELSE OutputResults(cli, written)
  /\ UNCHANGED <<pass, calls, iban>>

NextCli == Main \/ PdfSettled \/ ParseSettled

SpecCli == InitCli /\ [][NextCli]_vars

(***************************************************************************)
(* Properties                                                              *)
(***************************************************************************)
Last(q) == q[Len(q)]
Range(q) == {q[k] : k \in DOMAIN q}

\* every transaction built so far with its history: the emitted ones and the open one
Built ==
  {<<transactions[k], emitted[k]>> : k \in 1..Len(transactions)}
    \cup (IF transaction # null /\ open # null THEN {<<transaction[1], open[1]>>} ELSE {})

Emitted == {<<transactions[k], emitted[k]>> : k \in 1..Len(transactions)}

\* amount and type as line j alone determines them
AmountOfLine(j) == Some(parseAmount(amountRegex(Trim(lines[j]))[1]))
IndentTypeOfLine(j) == IF LeadingSpaces(lines[j]) >= 6 THEN Some("income") ELSE Some("expense")

\* C1: a transaction that was open with a null amount when a finalize trigger was reached
\* (an end-of-day marker line or the end of input; a description-start line replaces it) is
\* never in the output list: no emitted transaction has passed such a trigger.
C1_DiscardedAtTrigger == \A b \in Emitted : b[2].triggers = <<>>

\* C2: every transaction of the output list has a non-null amount and a type that is
\* "income" or "expense"; for the open transaction and every emitted one the amount is
\* null exactly when the type is null.
C2_EmittedHaveAmountAndType ==
  /\ \A b \in Emitted : b[1].amount # null /\ b[1].type \in {Some("income"), Some("expense")}
  /\ \A b \in Built : (b[1].amount = null) = (b[1].type = null)

\* C2 witness: a transaction has been emitted while the open one still has no amount
C2_Witness ==
  /\ Len(transactions) >= 1
  /\ transaction # null
  /\ transaction[1].amount = null

ExampleTransaction(description, reference) ==
  [date |-> Some("2024-05-12"), description |-> description, amount |-> Some(Num(FALSE, 150, "")),
   type |-> Some("income"), reference |-> reference, accountOwner |-> null]

\* C3 as stated: the four example lines alone give exactly one transaction with date
\* 2024-05-12, description "Plata c/catre FURNIZOR X", amount 150.00, type income,
\* reference "12345" and no account owner.
C3_ExampleAsStated ==
  (pc = "done" /\ lines = Example)
    => transactions = <<ExampleTransaction("Plata c/catre FURNIZOR X", Some("12345"))>>

\* C3 amended: the four example lines alone give no transaction (no line turns the
\* transaction section on); after a "SOLD ANTERIOR" line they give exactly one transaction,
\* whose description keeps the REF: text of the description-start line and whose reference
\* is null.
C3_ExampleAmended ==
  /\ (pc = "done" /\ lines = Example) => transactions = <<>>
  /\ (pc = "done" /\ lines = MarkedExample)
       => transactions = <<ExampleTransaction("Plata c/catre FURNIZOR X REF:12345", null)>>

\* C3 witness: the marked example has been parsed to its end
C3_Witness == pc = "done" /\ lines = MarkedExample /\ Len(transactions) = 1

\* C4: a skipped (header/footer) line contributes to no field of the result: the result is
\* the same as that of the text in which every skipped line is replaced by an empty line.
C4_SkippedLinesContributeNothing ==
  pc = "done" => (accountInfo = shadow.accountInfo /\ transactions = shadow.transactions)

\* C5: when an amount line sets the amount of a transaction, the type is "income" if the
\* untrimmed line has 6 or more leading whitespace characters and "expense" if it has 5 or
\* fewer.
C5_TypeFromIndent ==
  \A b \in Built :
    b[2].amountLines # <<>> =>
      LET raw == lines[Last(b[2].amountLines)]
      IN /\ LeadingSpaces(raw) >= 6 => b[1].type = Some("income")
         /\ LeadingSpaces(raw) <= 5 => b[1].type = Some("expense")

\* C5 witness: one emitted transaction typed income by a line of exactly 6 leading spaces
\* and one typed expense by a line of exactly 5
C5_Witness ==
  /\ \E b \in Emitted :
       /\ b[2].amountLines # <<>>
       /\ LeadingSpaces(lines[Last(b[2].amountLines)]) = 6
       /\ b[1].type = Some("income")
  /\ \E b \in Emitted :
       /\ b[2].amountLines # <<>>
       /\ LeadingSpaces(lines[Last(b[2].amountLines)]) = 5
       /\ b[1].type = Some("expense")

\* a non-skipped line matching /CONT|SOLD ANTERIOR/ is among the lines already processed
MarkerProcessed ==
  \E j \in 1..(i - 1) :
    /\ Trim(lines[j]) # ""
    /\ ~isHeaderOrFooterLine(Trim(lines[j]))
    /\ sectionRegex(Trim(lines[j]))

\* C6: until a non-skipped line matching CONT or SOLD ANTERIOR has been processed, no
\* transaction rule fires: currentDate is unset, no transaction is open and the output
\* list is empty.
C6_NothingBeforeSection ==
  ~MarkerProcessed => (currentDate = null /\ transaction = null /\ transactions = <<>>)

\* C6 witness: a date line, a description-start line and an amount line have all been
\* processed and no marker has
C6_Witness ==
  /\ ~MarkerProcessed
  /\ \E j1, j2, j3 \in 1..(i - 1) :
       /\ j1 < j2 /\ j2 < j3
       /\ dateRegex(Trim(lines[j1]))
       /\ descStart(Trim(lines[j2]))
       /\ amountRegex(Trim(lines[j3])) # null

\* the first non-skipped line after line s that matches the amount pattern, 0 if none
FirstAmountLineAfter(s) ==
  IF \E j \in (s + 1)..Len(lines) : ~IsSkipped(lines[j]) /\ amountRegex(Trim(lines[j])) # null
  THEN CHOOSE j \in (s + 1)..Len(lines) :
         /\ ~IsSkipped(lines[j]) /\ amountRegex(Trim(lines[j])) # null
         /\ \A h \in (s + 1)..(j - 1) : IsSkipped(lines[h]) \/ amountRegex(Trim(lines[h])) = null
  ELSE 0

\* C7 as stated: the amount and type of an emitted transaction come from the first line
\* matching the amount pattern after its description-start line.
C7_AmountFromFirstLine ==
  \A b \in Emitted :
    LET j == FirstAmountLineAfter(b[2].start)
    IN j # 0 /\ b[1].amount = AmountOfLine(j) /\ b[1].type = IndentTypeOfLine(j)

\* C7 amended: every amount-matching line processed while a transaction is open overwrites
\* its amount and type, so the amount and type of a transaction come from the last such
\* line; a transaction with no such line has no amount and no type.
C7_AmountFromLastLine ==
  \A b \in Built :
    /\ \A j \in Range(b[2].amountLines) : j > b[2].start /\ amountRegex(Trim(lines[j])) # null
    /\ IF b[2].amountLines = <<>>
       THEN b[1].amount = null /\ b[1].type = null
       ELSE /\ b[1].amount = AmountOfLine(Last(b[2].amountLines))
            /\ b[1].type = IndentTypeOfLine(Last(b[2].amountLines))

\* C7 witness: an emitted transaction that saw two amount lines with different amounts
C7_Witness ==
  \E b \in Emitted :
    /\ Len(b[2].amountLines) = 2
    /\ AmountOfLine(b[2].amountLines[1]) # AmountOfLine(b[2].amountLines[2])

\* the trimmed text between the first "REF:" of a line and its next "REF:" (or its end)
TextAfterRef(line) ==
  LET p == IndexFrom(line, "REF:", 1)
      q == IndexFrom(line, "REF:", p + 4)
  IN Trim(SubSeq(line, p + 4, IF q = 0 THEN Len(line) ELSE q - 1))

\* C8 as stated: whenever a line of the transaction, the description-start line included,
\* contains "REF:", the emitted reference is non-null and is the trimmed text after it.
C8_ReferenceFromAnyLine ==
  \A b \in Emitted :
    \A j \in {b[2].start} \cup Range(b[2].refLines) :
      Includes(lines[j], "REF:") => b[1].reference = Some(TextAfterRef(Trim(lines[j])))

\* C8 amended: the reference is set only by lines processed while the transaction is open
\* that contain "REF:" and do not match the amount pattern; the description-start line is
\* not one of them.  With no such line the reference is null, otherwise it is the trimmed
\* text between the first "REF:" and the next "REF:" (or the end) of the last such line.
C8_ReferenceFromRefLines ==
  \A b \in Built :
    /\ \A j \in Range(b[2].refLines) :
         /\ j > b[2].start
         /\ Includes(Trim(lines[j]), "REF:")
         /\ amountRegex(Trim(lines[j])) = null
    /\ IF b[2].refLines = <<>>
       THEN b[1].reference = null
       ELSE b[1].reference = Some(TextAfterRef(Trim(lines[Last(b[2].refLines)])))

\* C8 witness: an emitted transaction whose description-start line contains "REF:" and
\* that also saw a REF: line of its own
C8_Witness ==
  \E b \in Emitted :
    /\ Includes(lines[b[2].start], "REF:")
    /\ b[2].refLines # <<>>

\* C9: for every input text the pass never raises and terminates after one forward pass:
\* the loop index stays within the text, every step moves to the next line or, past the
\* last line, returns, and the returned result holds an accountInfo and a list of
\* transactions.
C9_NeverRaisesAndTerminates ==
  /\ [](~threw)
  /\ [](pc = "loop" => i \in 1..(Len(lines) + 1))
  /\ [](pc = "done" =>
         /\ i = Len(lines) + 1
         /\ rule = "return"
         /\ DOMAIN accountInfo = DOMAIN InitAccountInfo
         /\ DOMAIN transactions = 1..Len(transactions))
  /\ [][(pc = "loop" /\ i <= Len(lines) /\ i' = i + 1 /\ pc' = "loop")
         \/ (pc = "loop" /\ i = Len(lines) + 1 /\ i' = i /\ pc' = "done")]_vars

\* C9 witness: a truncated statement has been parsed to its end: the transaction opened
\* last never got an amount and nothing was emitted
C9_Witness == pc = "done" /\ transaction # null /\ transactions = <<>>

\* the rule of each accountInfo field, as satisfied by line j and its lookahead line
Processed(j) == j \in 1..Len(lines) /\ ~Scanned(lines[j]).skip
NextLine(j) == Scanned(lines[j + 1])
OwnerClientRuleAt(j) == Processed(j) /\ Scanned(lines[j]).ownerClientMatch # null
IbanRuleAt(j) == Processed(j) /\ Scanned(lines[j]).ibanMatch # null
CurrencyRuleAt(j) ==
  Processed(j) /\ Scanned(lines[j]).valuta /\ j < Len(lines) /\ Len(NextLine(j).line) >= 3
FinalBalanceRuleAt(j) ==
  Processed(j) /\ Scanned(lines[j]).soldFinalCont /\ j < Len(lines) /\ NextLine(j).balanceMatch # null
DailyTurnoverRuleAt(j) ==
  Processed(j) /\ Scanned(lines[j]).dailyTurnoverMatch # null /\ j < Len(lines)
    /\ Len(NextLine(j).line) >= 5
TotalTurnoverRuleAt(j) ==
  Processed(j) /\ Scanned(lines[j]).rulajTotalCont /\ j < Len(lines)
    /\ Len(NextLine(j).totalValues) >= 2
BlockedAmountRuleAt(j) ==
  /\ Processed(j)
  /\ Scanned(lines[j]).blockedAmountMatch # null
  /\ ~Scanned(lines[j]).sumeBlocate
  /\ \E h \in 1..(j - 1) : Processed(h) /\ Scanned(lines[h]).sumeBlocate

OwnerFields(ai) == <<ai.accountOwner, ai.clientNumber>>

\* a field that has left its initial value had its rule satisfied by a processed line
FieldsKept ==
  /\ (OwnerFields(accountInfo) # OwnerFields(InitAccountInfo))
       => (\E j \in 1..(i - 1) : OwnerClientRuleAt(j))
  /\ (accountInfo.iban # "") => (\E j \in 1..(i - 1) : IbanRuleAt(j))
  /\ (accountInfo.currency # "") => (\E j \in 1..(i - 1) : CurrencyRuleAt(j))
  /\ (accountInfo.finalBalance # null) => (\E j \in 1..(i - 1) : FinalBalanceRuleAt(j))
  /\ (accountInfo.turnover.total # InitAccountInfo.turnover.total)
       => (\E j \in 1..(i - 1) : TotalTurnoverRuleAt(j))
  /\ (accountInfo.turnover.daily # <<>>) => (\E j \in 1..(i - 1) : DailyTurnoverRuleAt(j))
  /\ (accountInfo.blockedAmounts # <<>>) => (\E j \in 1..(i - 1) : BlockedAmountRuleAt(j))

\* a step changes a field only if line i satisfies the rule of that field
FieldsFramed ==
  /\ (OwnerFields(accountInfo') # OwnerFields(accountInfo)) => OwnerClientRuleAt(i)
  /\ (accountInfo'.iban # accountInfo.iban) => IbanRuleAt(i)
  /\ (accountInfo'.currency # accountInfo.currency) => CurrencyRuleAt(i)
  /\ (accountInfo'.finalBalance # accountInfo.finalBalance) => FinalBalanceRuleAt(i)
  /\ (accountInfo'.turnover.total # accountInfo.turnover.total) => TotalTurnoverRuleAt(i)
  /\ (accountInfo'.turnover.daily # accountInfo.turnover.daily) => DailyTurnoverRuleAt(i)
  /\ (accountInfo'.blockedAmounts # accountInfo.blockedAmounts)
       => (BlockedAmountRuleAt(i) /\ blockedAmountsSection)

\* C10: each accountInfo field keeps its initial value unless some processed (non-skipped)
\* line satisfied that field's own rule, and processing a line changes only the fields
\* whose rule that line, with its one-line lookahead, satisfies.
C10_AccountInfoFrame == []FieldsKept /\ [][FieldsFramed]_vars

\* C10 witness: a "Valuta" line and its value line have set the currency and every other
\* field still has its initial value
C10_Witness ==
  /\ pc = "done"
  /\ accountInfo.currency = "RON"
  /\ [accountInfo EXCEPT !.currency = ""] = InitAccountInfo

\* C11: calls of parseBTStatement whose steps interleave do not interfere: the result of
\* each call is the result of running the pass alone on that call's text.
C11_CallsDoNotInterfere ==
  \A c \in Calls :
    calls[c].pc = "done" => Output(calls[c].st) = Output(RunFrom(InitState, Split(calls[c].text, "\n"), 1))

\* both calls returned transactions for different texts, each having taken steps while the
\* other was in the middle of its pass
C11_Witness ==
  /\ \A c \in Calls : calls[c].pc = "done" /\ calls[c].overlap /\ calls[c].st.transactions # <<>>
  /\ calls[1].text # calls[2].text
  /\ calls[1].st.transactions # calls[2].st.transactions

\* C12: for country "RO", a bank code of 4 uppercase letters and an account identifier of
\* 16 uppercase alphanumeric characters, the IBAN built from the parts and the check digits
\* calculateIbanCheckDigits returns for them is accepted by validateIbanChecksum.
C12_CheckDigitsRoundTrip ==
  (iban # null /\ iban.fn = "calculateIbanCheckDigits") =>
    /\ ~iban.rx.threw
    /\ Len(iban.rx.value.checkDigits) = 2 /\ AllIn(iban.rx.value.checkDigits, Digits)
    /\ iban.rx.value.calculatedIban =
         "RO" \o iban.rx.value.checkDigits \o ToUpper(iban.x[2]) \o ToUpper(iban.x[3])
    /\ iban.rx.value.checkResult

\* check digits that needed the padding to two characters, for a known bank
C12_Witness ==
  /\ iban # null /\ iban.fn = "calculateIbanCheckDigits"
  /\ iban.x[2] = "BTRL"
  /\ ~iban.rx.threw
  /\ SubSeq(iban.rx.value.checkDigits, 1, 1) = "0"
  /\ iban.rx.value.checkResult

\* C13: every exported validation function, called with any string, returns a result and
\* never throws.
ValidationFunctions ==
  {"validateRomanianIbanStructure", "validateIbanChecksum", "validateIban", "validateIbanRealTime"}

C13_ValidationNeverThrows ==
  (iban # null /\ iban.fn \in ValidationFunctions) => ~iban.rx.threw /\ ~iban.ry.threw

\* the five checks of the structure on a cleaned string c, in the stated order, and the
\* message of each
StructureChecks(c) ==
  <<Len(c) = 24,
    Len(c) >= 2 /\ SubSeq(c, 1, 2) = "RO",
    Len(c) >= 4 /\ \A k \in 3..4 : IsDigit(Ch(c, k)),
    Len(c) >= 8 /\ \A k \in 5..8 : IsUpper(Ch(c, k)),
    Len(c) = 24 /\ \A k \in 9..24 : IsDigit(Ch(c, k)) \/ IsUpper(Ch(c, k))>>

StructureMessages(c) ==
  <<"IBAN must be 24 characters long (current: " \o ToString(Len(c)) \o ")",
    "IBAN must start with RO for Romanian accounts",
    "Check digits (positions 3-4) must be numeric",
    "Bank code (positions 5-8) must be 4 uppercase letters",
    "Account identifier must be 16 alphanumeric characters">>

\* what the claim says the structure validation of a string with cleaned form c returns
StructureAsStated(c, r) ==
  /\ r.isValid = (\A k \in 1..5 : StructureChecks(c)[k])
  /\ ~r.isValid =>
       \E k \in 1..5 :
         /\ ~StructureChecks(c)[k]
         /\ \A h \in 1..(k - 1) : StructureChecks(c)[h]
         /\ r.error = Some(StructureMessages(c)[k])
  /\ Cardinality({StructureMessages(c)[k] : k \in 1..5}) = 5

\* C14: validateRomanianIbanStructure evaluates length, country code, check digits, bank
\* code and account identifier in this order and returns the message of the first check
\* that fails; it returns valid exactly when all five pass.
C14_FirstFailingCheck ==
  (iban # null /\ iban.fn = "validateRomanianIbanStructure") =>
    /\ ~iban.rx.threw /\ StructureAsStated(cleanIban(iban.x), iban.rx.value)
    /\ ~iban.ry.threw /\ StructureAsStated(cleanIban(iban.y), iban.ry.value)

\* a string of the wrong length that does not start with RO either got the length message
C14_Witness ==
  /\ iban # null /\ iban.fn = "validateRomanianIbanStructure"
  /\ Len(cleanIban(iban.x)) = 23
  /\ ~StructureChecks(cleanIban(iban.x))[2]
  /\ iban.rx.value.error = Some("IBAN must be 24 characters long (current: 23)")

\* c cut into groups of 4 characters separated by single spaces, with no trailing space
RECURSIVE InGroupsOfFour(_)
InGroupsOfFour(c) ==
  IF Len(c) <= 4 THEN c ELSE SubSeq(c, 1, 4) \o " " \o InGroupsOfFour(SubSeq(c, 5, Len(c)))

\* C15: for every string s, formatIban(s) is the cleaned form of s (uppercased, all white
\* space and all hyphens removed) cut into groups of 4 separated by single spaces.
C15_FormatIsCleanedInGroups ==
  (iban # null /\ iban.fn = "formatIban") =>
    /\ iban.rx.value = InGroupsOfFour(cleanIban(iban.x))
    /\ iban.ry.value = InGroupsOfFour(cleanIban(iban.y))

\* a spelling of an IBAN: letters and digits once the white space is taken out
IsIbanSpelling(x) == AllIn(RemoveChars(x, Whitespace), UpperOrDigitSet \cup {ToLowerCh(c) : c \in UpperSet})

\* C16: for every spelling x of an IBAN string in any letter case and white space,
\* formatIban(cleanIban(x)) = formatIban(x), and all the spellings format to the same string.
C16_FormatOfCleanedIsFormat ==
  (iban # null /\ iban.fn = "formatIban" /\ IsIbanSpelling(iban.x)) =>
    /\ iban.rx.value = formatIban(cleanIban(iban.x))
    /\ iban.ry.value = formatIban(cleanIban(iban.y))
    /\ iban.rx.value = iban.ry.value

\* the two spellings of the example were formatted to the same string
C16_Witness ==
  /\ iban # null /\ iban.fn = "formatIban"
  /\ iban.x = SpacedExample /\ iban.y = LowerExample
  /\ iban.rx.value = SpacedExample /\ iban.ry.value = SpacedExample

\* C17 as stated: validateIban gives the same result for any two inputs that differ only
\* in letter case and white space.
C17_SameResultForVariants ==
  (iban # null /\ iban.fn = "validateIban") => iban.rx = iban.ry

\* C17 as amended: the validity outcome, bankCode and formatted value are the same for any
\* two such inputs, and so is the error unless exactly one of the two is the empty string.
C17_SameResultForNonEmptyVariants ==
  (iban # null /\ iban.fn = "validateIban") =>
    /\ ~iban.rx.threw /\ ~iban.ry.threw
    /\ iban.rx.value.isValid = iban.ry.value.isValid
    /\ iban.rx.value.bankCode = iban.ry.value.bankCode
    /\ iban.rx.value.formatted = iban.ry.value.formatted
    /\ iban.rx.value.warning = iban.ry.value.warning
    /\ ((iban.x = "") = (iban.y = "")) => iban.rx.value.error = iban.ry.value.error

\* the two spellings of the example were both found valid, with the same formatted value
C17_Witness ==
  /\ iban # null /\ iban.fn = "validateIban"
  /\ iban.x = SpacedExample /\ iban.y = LowerExample
  /\ iban.rx.value.isValid /\ iban.ry.value.isValid
  /\ iban.rx.value.formatted = Some(SpacedExample)
  /\ iban.rx = iban.ry

\* the structure check and the checksum check both pass on the cleaned string c
StructureAndChecksumPass(c) ==
  /\ \A k \in 1..5 : StructureChecks(c)[k]
  /\ validateIbanChecksum(c) = Returned(TRUE)

\* what the claim says validateIban returns for a string with cleaned form c
KnownBankNonBlocking(c, r) ==
  /\ r.isValid = StructureAndChecksumPass(c)
  /\ r.isValid =>
       /\ r.bankCode = Some(SubSeq(c, 5, 8))
       /\ SubSeq(c, 5, 8) \in ROMANIAN_BANK_CODES => r.warning = null
       /\ SubSeq(c, 5, 8) \notin ROMANIAN_BANK_CODES =>
            r.warning = Some("Bank code " \o SubSeq(c, 5, 8)
                               \o " is not in our dataset of known Romanian banks")

\* C18: the known-bank check of validateIban is non-blocking: the outcome is valid exactly
\* when the structure check and the checksum check both pass, whether or not the bank code
\* is in the reference list; an unknown bank code only adds a warning to a valid result,
\* and a known one gives no warning.
C18_KnownBankCheckNonBlocking ==
  (iban # null /\ iban.fn = "validateIban") =>
    /\ ~iban.rx.threw /\ KnownBankNonBlocking(cleanIban(iban.x), iban.rx.value)
    /\ ~iban.ry.threw /\ KnownBankNonBlocking(cleanIban(iban.y), iban.ry.value)

\* an IBAN of a bank outside the list was found valid, with the warning
C18_Witness ==
  /\ iban # null /\ iban.fn = "validateIban"
  /\ iban.rx.value.isValid
  /\ iban.rx.value.bankCode = Some("AAAA")
  /\ "AAAA" \notin ROMANIAN_BANK_CODES
  /\ iban.rx.value.warning # null

\* the constraints on the n characters present of the cleaned string c
PrefixConstraints(c) ==
  /\ Len(c) < 2 \/ SubSeq(c, 1, 2) = "RO"
  /\ Len(c) < 4 \/ \A k \in 3..4 : IsDigit(Ch(c, k))
  /\ Len(c) < 8 \/ \A k \in 5..8 : IsUpper(Ch(c, k))
  /\ \A k \in 9..Len(c) : IsDigit(Ch(c, k)) \/ IsUpper(Ch(c, k))

\* what the claim says validateIbanRealTime returns for the string x with cleaned form c;
\* at 24 characters the outcome is validateIban's, and so is the whole result object once
\* the constraints on the characters hold (before that the messages are its own)
RealTimeAsStated(x, c, r) ==
  /\ Len(c) < 24 => r.isValid = PrefixConstraints(c)
  /\ Len(c) = 24 =>
       /\ r.isValid = validateIban(x).value.isValid
       /\ r.isValid = StructureAndChecksumPass(c)
       /\ PrefixConstraints(c) => r = validateIban(x).value
  /\ Len(c) > 24 => ~r.isValid

IOErrors == {"noInput", "notFound", "read", "pdf", "writeText", "writeOutput"}

\* the failures the code treats as fatal
FatalErrors == {"noInput", "notFound", "read", "pdf"}

\* C20 as stated: every I/O or invocation error (no input file, input file not found, PDF
\* read or extraction failure, failure to write the -o file or the -t text file) is fatal:
\* a message on stderr, a non-zero exit status, and no result printed anywhere.
C20_EveryIOErrorIsFatal ==
  (cli # null /\ cli.pc = "exited" /\ cli.errors \cap IOErrors # {}) =>
    /\ cli.stderr # <<>>
    /\ cli.exit # Some(0)
    /\ \A k \in 1..Len(cli.stdout) : cli.stdout[k] # "json"

\* C20 as amended: a missing or nonexistent input file and a PDF read or extraction failure
\* are fatal (message on stderr, exit status 1, no result printed); a failure to write the
\* -t text file is reported on stderr and the processing goes on; a failure to write the -o
\* file is reported on stderr, the result is printed on stdout and the exit status is 0.
C20_ReadErrorsAreFatal ==
  (cli # null /\ cli.pc = "exited") =>
    /\ cli.errors \cap FatalErrors # {} =>
         /\ cli.stderr # <<>>
         /\ cli.exit = Some(1)
         /\ \A k \in 1..Len(cli.stdout) : cli.stdout[k] # "json"
    /\ "writeText" \in cli.errors =>
         \E k \in 1..Len(cli.stderr) : cli.stderr[k] = "Error saving text file"
    /\ "writeOutput" \in cli.errors =>
         /\ \E k \in 1..Len(cli.stderr) : cli.stderr[k] = "Error saving output file"
         /\ cli.stdout[Len(cli.stdout)] = "json"
         /\ cli.exit = Some(0)
    /\ cli.errors = {} => cli.exit = Some(0) /\ cli.stderr = <<>>

\* the PDF extraction failed after the text file could not be written: both are reported
\* and the exit status is 1
C20_Witness ==
  /\ cli # null /\ cli.pc = "exited"
  /\ cli.errors = {"writeText", "pdf"}
  /\ cli.stderr = <<"Error saving text file", "Error processing file">>
  /\ cli.exit = Some(1)

Max(S) == CHOOSE x \in S : \A y \in S : y <= x

\* the blocked-amounts flag as the marker lines before line g leave it: on when the most
\* recent processed marker line contains "SUME BLOCATE"
BlockedOnAt(g) ==
  \E a \in 1..(g - 1) :
    /\ Processed(a) /\ Scanned(lines[a]).sumeBlocate
    /\ \A b \in (a + 1)..(g - 1) :
         Processed(b) => ~Scanned(lines[b]).sumeBlocate /\ ~Scanned(lines[b]).totalDisponibil

\* line g is a marker line of the blocked-amounts section, which ends its iteration
BlockedMarkerAt(g) ==
  /\ Processed(g)
  /\ Scanned(lines[g]).sumeBlocate \/ (BlockedOnAt(g) /\ Scanned(lines[g]).totalDisponibil)

\* line g matches /CONT|SOLD ANTERIOR/ and reaches the section test
SectionLineAt(g) == Processed(g) /\ ~BlockedMarkerAt(g) /\ Scanned(lines[g]).section

SectionOnAt(h) == \E g \in 1..(h - 1) : SectionLineAt(g)

\* line h is exactly DD/MM/YYYY and is processed with the transaction section on
DateLineAt(h) ==
  /\ Processed(h) /\ ~BlockedMarkerAt(h) /\ ~SectionLineAt(h)
  /\ SectionOnAt(h)
  /\ Scanned(lines[h]).dateMatch

DateLinesBefore(j) == {h \in 1..(j - 1) : h <= Len(lines) /\ DateLineAt(h)}

\* the most recent date line before line j, null if there is none
DateInEffect(j) ==
  IF DateLinesBefore(j) = {} THEN null ELSE Some(Scanned(lines[Max(DateLinesBefore(j))]).line)

\* DD/MM/YYYY with its three fields reordered to YYYY-MM-DD
Reordered(d) == SubSeq(d, 7, 10) \o "-" \o SubSeq(d, 4, 5) \o "-" \o SubSeq(d, 1, 2)

DatesInEffect ==
  /\ currentDate = DateInEffect(i)
  /\ \A b \in Emitted :
       /\ DateInEffect(b[2].start) # null
       /\ b[1].date = Some(Reordered(DateInEffect(b[2].start)[1]))
  /\ (transaction # null /\ open # null) => transaction[1].date = DateInEffect(open[1].start)

DateLineOnlySetsDate ==
  (pc = "loop" /\ i <= Len(lines) /\ DateLineAt(i))
    => /\ currentDate' = Some(Scanned(lines[i]).line)
       /\ transaction' = transaction
       /\ transactions' = transactions

\* C21: the date of an emitted transaction is the most recent date line (a line that is
\* exactly DD/MM/YYYY, processed with the transaction section on) before the transaction's
\* description-start line, with its fields reordered to YYYY-MM-DD; a date line never opens
\* or finalizes a transaction, and a date line processed while a transaction is open does
\* not change that transaction's date.
C21_DateOfDescriptionStart == []DatesInEffect /\ [][DateLineOnlySetsDate]_vars

\* C21 witness: two transactions were emitted with different dates, and the date line of
\* the second was processed while the first was open
C21_Witness ==
  /\ pc = "done"
  /\ Len(transactions) = 2
  /\ transactions[1].date = Some("2024-05-12")
  /\ transactions[2].date = Some("2024-05-13")
  /\ \E h \in (emitted[1].start + 1)..(emitted[2].start - 1) :
       DateLineAt(h) /\ emitted[1].amountLines # <<>> /\ h > Last(emitted[1].amountLines)

\* line j begins with a description keyword and is processed by the transaction rules
\* while currentDate is set
DescriptionStartAt(j) ==
  /\ Processed(j) /\ ~BlockedMarkerAt(j) /\ ~SectionLineAt(j)
  /\ SectionOnAt(j)
  /\ DateInEffect(j) # null
  /\ Scanned(lines[j]).descStart

Starts == [k \in 1..Len(emitted) |-> emitted[k].start]

OneTransactionPerStart ==
  /\ \A k \in 1..Len(emitted) : DescriptionStartAt(Starts[k])
  /\ \A k \in 1..(Len(emitted) - 1) : Starts[k] < Starts[k + 1]
  /\ (open # null /\ emitted # <<>>) => Last(Starts) < open[1].start
  /\ open # null => (DescriptionStartAt(open[1].start) /\ open[1].start < i)

StartFinalizesAndOpens ==
  (pc = "loop" /\ i <= Len(lines) /\ DescriptionStartAt(i))
    => /\ transaction' = Some([date |-> currentDate, description |-> Scanned(lines[i]).line \o " ",
                               amount |-> null, type |-> null, reference |-> null,
                               accountOwner |-> null])
       /\ IF transaction # null /\ transaction[1].amount # null
          THEN /\ Len(transactions') = Len(transactions) + 1
               /\ SubSeq(transactions', 1, Len(transactions)) = transactions
               /\ Last(transactions').amount = transaction[1].amount
               /\ Last(transactions').type = transaction[1].type
               /\ Last(transactions').reference = transaction[1].reference
               /\ Last(emitted').start < i
          ELSE transactions' = transactions

\* C22: at most one transaction is open at any time: a description-start line processed by
\* the transaction rules while currentDate is set first finalizes the open transaction and
\* then opens a new one seeded with that line, so each description-start line yields at
\* most one emitted transaction and the output list is ordered by the positions of the
\* description-start lines in the input.
C22_OneOpenTransaction == []OneTransactionPerStart /\ [][StartFinalizesAndOpens]_vars

\* C22 witness: a description-start line has just emitted the transaction that was open
\* and opened its own, no end-of-day marker having been processed
C22_Witness ==
  /\ rule = "open"
  /\ Len(transactions) = 1
  /\ transaction # null /\ open # null
  /\ open[1].start = i - 1
  /\ emitted[1].start < open[1].start
  /\ \A h \in 1..(i - 1) : ~Scanned(lines[h]).endMarker

\* line j is processed by the transaction rules and is neither a date line nor a
\* description-start line: with a transaction open it is a detail line of that transaction
DetailLineAt(j) ==
  /\ Processed(j) /\ ~BlockedMarkerAt(j) /\ ~SectionLineAt(j)
  /\ SectionOnAt(j)
  /\ ~Scanned(lines[j]).dateMatch
  /\ ~DescriptionStartAt(j)

\* the open transaction t after an end-of-day marker or a description line m, its owner
\* being owner by then
AfterOwner(t, m, owner) ==
  IF m.endMarker
  THEN IF t.amount # null
       THEN /\ transaction' = null
            /\ Len(transactions') = Len(transactions) + 1
            /\ Last(transactions') =
                 [t EXCEPT !.accountOwner = owner,
                           !.description = CollapseSpaces(Trim(t.description)),
                           !.date = Some(Reordered(t.date[1]))]
       ELSE /\ transaction' = Some([t EXCEPT !.accountOwner = owner])
            /\ transactions' = transactions
  ELSE /\ transaction' = Some([t EXCEPT !.accountOwner = owner,
                                        !.description = @ \o m.line \o " "])
       /\ transactions' = transactions

\* the open transaction t after the detail line m, line i of the text
AfterDetail(t, m) ==
  IF m.amtMatch # null
  THEN /\ transaction' = Some([t EXCEPT !.amount = Some(parseAmount(m.amtMatch[1])),
                                        !.type = IndentTypeOfLine(i)])
       /\ transactions' = transactions
  ELSE IF Includes(m.line, "REF:")
  THEN /\ transaction' = Some([t EXCEPT !.reference = Some(TextAfterRef(m.line))])
       /\ transactions' = transactions
  ELSE AfterOwner(t, m, IF m.ownerMatch # null THEN Some(Trim(m.ownerMatch[1]))
                                              ELSE t.accountOwner)

FirstApplicableDetailRule ==
  (pc = "loop" /\ i <= Len(lines) /\ transaction # null /\ DetailLineAt(i))
    => AfterDetail(transaction[1], Scanned(lines[i]))

\* C23: while a transaction is open, a line that is not a description start is handled by
\* the first applicable rule of (a) amount, (b) REF:, (c)+(d): a line matching the amount
\* pattern only sets amount and type; otherwise a line containing "REF:" only sets the
\* reference; otherwise an owner match sets accountOwner and the same line then finalizes
\* if it holds an end-of-day marker (the marker line is not appended) and is appended to
\* the description, with a separating space, if it does not.
C23_FirstApplicableRule == [][FirstApplicableDetailRule]_vars

\* C23 witness: a line with an amount, "REF:" and a marker set only the amount, a line with
\* "REF:", an owner and a marker set only the reference, and a line with an owner and a
\* marker set the owner and emitted the transaction
C23_Witness ==
  /\ pc = "done"
  /\ transactions =
       <<[date |-> Some("2024-05-12"), description |-> "Plata X",
          amount |-> Some(Num(FALSE, 10, "")), type |-> Some("expense"),
          reference |-> Some("7; ION;"), accountOwner |-> Some("ION")]>>
  /\ Len(emitted[1].amountLines) = 1 /\ Len(emitted[1].refLines) = 1

\* line j matches the blocked-amount pattern and is processed, not as a marker line, while
\* the blocked-amounts flag is on
BlockedEntryAt(j) ==
  /\ Processed(j) /\ ~BlockedMarkerAt(j)
  /\ BlockedOnAt(j)
  /\ Scanned(lines[j]).blockedAmountMatch # null

BlockedEntryLines == {j \in 1..(i - 1) : j <= Len(lines) /\ BlockedEntryAt(j)}

\* the k-th smallest element of a set of line numbers
Nth(S, k) == CHOOSE j \in S : Cardinality({h \in S : h <= j}) = k

\* the entry a blocked-amount line gives: its amount, and the trimmed text that follows
\* "tranzactiei" as its description
EntryOfLine(j) ==
  [amount |-> parseAmount(Scanned(lines[j]).blockedAmountMatch[1][1]),
   description |-> Trim(SubSeq(Scanned(lines[j]).line,
                               IndexFrom(Scanned(lines[j]).line, "tranzactiei", 1) + 11,
                               Len(Scanned(lines[j]).line)))]

\* C24: the blocked-amounts flag is on exactly when the most recent marker line processed
\* contains "SUME BLOCATE" (a line containing "TOTAL DISPONIBIL" turns it off), and
\* blockedAmounts holds one entry, in input order, for each non-skipped line that matches
\* the blocked-amount pattern and is processed while the flag is on, and nothing for
\* marker lines or for lines processed while the flag is off.
C24_BlockedSection ==
  /\ blockedAmountsSection = BlockedOnAt(i)
  /\ Len(accountInfo.blockedAmounts) = Cardinality(BlockedEntryLines)
  /\ \A k \in 1..Len(accountInfo.blockedAmounts) :
       accountInfo.blockedAmounts[k] = EntryOfLine(Nth(BlockedEntryLines, k))

\* C24 witness: the section was opened, gave two different entries in the order of their
\* lines, and was closed, and a blocked-amount line after it gave nothing
C24_Witness ==
  /\ pc = "done"
  /\ ~blockedAmountsSection
  /\ Len(accountInfo.blockedAmounts) = 2
  /\ accountInfo.blockedAmounts[1].description = "ATM"
  /\ accountInfo.blockedAmounts[2].description = "POS 1"
  /\ \E j \in 1..Len(lines) :
       /\ BlockedMarkerAt(j) /\ Scanned(lines[j]).totalDisponibil
       /\ \E h \in (j + 1)..Len(lines) : Processed(h) /\ Scanned(lines[h]).blockedAmountMatch # null

\* one iteration with the blocked-amounts handling (src/bt.js:709-729) left out: the
\* transaction rules alone
TransactionRulesAlone(st, m) == IF m.skip THEN st ELSE TransactionRules(st, m)

RECURSIVE RunAlone(_, _, _)
RunAlone(st, ls, k) ==
  IF k > Len(ls) \/ st.threw THEN Return(st)
  ELSE RunAlone(TransactionRulesAlone(st, LineAt(ls, k)), ls, k + 1)

\* the text with each marker line of the blocked-amounts section replaced by an empty line
WithoutMarkers == [k \in DOMAIN lines |-> IF BlockedMarkerAt(k) THEN "" ELSE lines[k]]

\* C25 as stated: the transactions returned are those the transaction rules produce when
\* the blocked-amounts handling is removed, so the blocked flag and its marker lines never
\* change whether or how a line is processed by the transaction rules.
C25_BlockedHandlingRemovable ==
  pc = "done" => transactions = RunAlone(InitState, lines, 1).transactions

\* C25 amended: the marker lines of the blocked-amounts section are consumed by it and
\* reach neither the section test nor the transaction rules; on every other line the
\* transaction rules run as if there were no blocked-amounts handling.  The transactions
\* returned are those the transaction rules alone produce on the text without its marker
\* lines.
C25_OnlyMarkerLinesConsumed ==
  pc = "done" => transactions = RunAlone(InitState, WithoutMarkers, 1).transactions

\* C25 witness: with a transaction open, a marker line was consumed and a blocked-amount
\* line of the section then set the amount of the transaction, which was emitted
C25_Witness ==
  /\ pc = "done"
  /\ \E k \in 1..Len(transactions) :
       \E j \in Range(emitted[k].amountLines) :
         /\ BlockedEntryAt(j)
         /\ \E h \in (emitted[k].start + 1)..(j - 1) : BlockedMarkerAt(h)

\* the last line before line i that satisfies a rule, 0 if none does
LastWith(RuleAt(_)) ==
  IF \E j \in 1..(i - 1) : j <= Len(lines) /\ RuleAt(j)
  THEN Max({j \in 1..(i - 1) : j <= Len(lines) /\ RuleAt(j)})
  ELSE 0

DailyLines == {j \in 1..(i - 1) : j <= Len(lines) /\ DailyTurnoverRuleAt(j)}

\* the text of the line that follows line j, trimmed
ValueLine(j) == Trim(lines[j + 1])

\* each lookahead field holds what the line right after its last label line gives
ValuesFromNextLine ==
  /\ accountInfo.currency =
       IF LastWith(CurrencyRuleAt) = 0 THEN ""
       ELSE SubSeq(ValueLine(LastWith(CurrencyRuleAt)), 1, 3)
  /\ accountInfo.finalBalance =
       IF LastWith(FinalBalanceRuleAt) = 0 THEN null
       ELSE Some(parseAmount(ValueLine(LastWith(FinalBalanceRuleAt))))
  /\ accountInfo.turnover.total =
       IF LastWith(TotalTurnoverRuleAt) = 0 THEN [debit |-> null, credit |-> null]
       ELSE [debit  |-> Some(parseAmount(AmountMatchAll(lines[LastWith(TotalTurnoverRuleAt) + 1], 1)[1])),
             credit |-> Some(parseAmount(AmountMatchAll(lines[LastWith(TotalTurnoverRuleAt) + 1], 1)[2]))]
  /\ Len(accountInfo.turnover.daily) = Cardinality(DailyLines)
  /\ \A k \in 1..Len(accountInfo.turnover.daily) :
       LET v == ValueLine(Nth(DailyLines, k))
       IN /\ accountInfo.turnover.daily[k].debit = parseAmount(SubSeq(v, 1, Len(v) - 5))
          /\ accountInfo.turnover.daily[k].credit = parseAmount(SubSeq(v, Len(v) - 4, Len(v)))

\* line j is a label line whose value was read from line j + 1
ValueReadAfter(j) ==
  CurrencyRuleAt(j) \/ FinalBalanceRuleAt(j) \/ DailyTurnoverRuleAt(j) \/ TotalTurnoverRuleAt(j)

\* the fields of the state a loop iteration can change
Fields(st) ==
  <<st.accountInfo, st.transactions, st.currentDate, st.transaction, st.blockedAmountsSection,
    st.inTransactionSection>>

ValueLineStillProcessed ==
  /\ (pc = "loop" /\ i <= Len(lines)) => i' = i + 1
  /\ (pc = "loop" /\ i = Len(lines))
       => /\ accountInfo'.currency = accountInfo.currency
          /\ accountInfo'.finalBalance = accountInfo.finalBalance
          /\ accountInfo'.turnover = accountInfo.turnover
  /\ (pc = "loop" /\ i \in 2..Len(lines) /\ ValueReadAfter(i - 1))
       => /\ Fields(State') = Fields(LoopBody(State, Scanned(lines[i]), Lookahead(lines, i)))
          /\ Processed(i) => rule' # "skip"

\* C26: for the lookahead rules (currency, final balance, total turnover, daily turnover)
\* the value for a label at line i is read only from line i + 1 of the split text (blank
\* lines are not skipped over), a label on the last line changes nothing, and the value
\* line is not consumed: it is afterwards processed by every rule as an ordinary line in
\* its own iteration.
C26_LookaheadReadsNextLine == []ValuesFromNextLine /\ [][ValueLineStillProcessed]_vars

\* C26 witness: the line after "Valuta" gave the currency and, processed in its own
\* iteration as a "SOLD FINAL CONT" line, turned the transaction section on and read the
\* final balance from the line after it
C26_Witness ==
  /\ pc = "done"
  /\ lines = <<"Valuta", "SOLD FINAL CONT", "1,234.56">>
  /\ accountInfo.currency = "SOL"
  /\ accountInfo.finalBalance = Some(parseAmount("1,234.56"))
  /\ inTransactionSection

\* line j is processed and matches the "<DD/MM/YYYY>RULAJ ZI" marker
DailyMarkerAt(j) == Processed(j) /\ Scanned(lines[j]).dailyTurnoverMatch # null

DailyMarkers == {j \in 1..Len(lines) : DailyMarkerAt(j)}

\* the marker lines followed by a line of 5 or more characters
DailyMarkersWithValues == {j \in 1..Len(lines) : DailyTurnoverRuleAt(j)}

\* the date a marker line carries in front of "RULAJ ZI"
DateOfMarker(j) ==
  SubSeq(Scanned(lines[j]).line, IndexFrom(Scanned(lines[j]).line, "RULAJ ZI", 1) - 10,
         IndexFrom(Scanned(lines[j]).line, "RULAJ ZI", 1) - 1)

DailyEntriesOf(S) ==
  /\ Len(accountInfo.turnover.daily) = Cardinality(S)
  /\ \A k \in 1..Len(accountInfo.turnover.daily) :
       accountInfo.turnover.daily[k].date = DateOfMarker(Nth(S, k))

\* C27 as stated: in the returned accountInfo, turnover.daily holds exactly one entry for
\* each non-skipped line matching the "<DD/MM/YYYY>RULAJ ZI" marker, in input order, each
\* with the date of its marker line.
C27_OneEntryPerMarker == pc = "done" => DailyEntriesOf(DailyMarkers)

\* C27 amended: turnover.daily holds exactly one entry, in input order and with the date
\* of its marker line, for each non-skipped marker line that is followed by a line of at
\* least 5 characters after trimming; a marker on the last line, or followed by a shorter
\* or an empty line, gives no entry.
C27_OneEntryPerMarkerWithValues == pc = "done" => DailyEntriesOf(DailyMarkersWithValues)

\* C27 witness: of three marker lines the one on the last line of the text gives no entry
\* and the other two give their entries in order
C27_Witness ==
  /\ pc = "done"
  /\ Cardinality(DailyMarkers) = 3
  /\ Len(accountInfo.turnover.daily) = 2
  /\ accountInfo.turnover.daily[1].date = "13/05/2024"
  /\ accountInfo.turnover.daily[2].date = "12/05/2024"

GrowsByAppending ==
  /\ Len(transactions') \in {Len(transactions), Len(transactions) + 1}
  /\ SubSeq(transactions', 1, Len(transactions)) = transactions

\* C28: the transactions list only grows by appending at its end, and a transaction is
\* immutable once emitted: after it has been appended no later line changes any of its
\* fields, and it is never removed or reordered.
C28_EmittedAreImmutable == [][GrowsByAppending]_vars

\* C28 witness: a transaction was emitted at an end-of-day marker; a date line, a
\* description-start line and one more line were processed after that and a second
\* transaction was emitted behind the first, which is as it was
C28_Witness ==
  /\ pc = "done"
  /\ Len(lines) = 8
  /\ lines[5] = "RULAJ ZI"
  /\ Len(transactions) = 2
  /\ transactions[1] =
       [date |-> Some("2024-05-12"), description |-> "Plata X",
        amount |-> Some(Num(FALSE, 5, "")), type |-> Some("expense"), reference |-> null,
        accountOwner |-> null]
  /\ emitted[1].start = 3
  /\ emitted[2].start > 5
  /\ \E h \in 6..8 : DateLineAt(h)

SectionLineConsumed ==
  /\ inTransactionSection => inTransactionSection'
  /\ (pc = "loop" /\ i <= Len(lines) /\ Processed(i) /\ Scanned(lines[i]).section)
       => /\ currentDate' = currentDate
          /\ transaction' = transaction
          /\ transactions' = transactions
          /\ ~BlockedMarkerAt(i) => inTransactionSection'

\* C29: once inTransactionSection is on it never turns off, and every non-skipped line
\* matching "CONT" or "SOLD ANTERIOR" (the "SOLD FINAL CONT" label line included, also after
\* the section is already on) is consumed by section detection: it never sets currentDate
\* and never opens, extends or finalizes a transaction, even when it begins with a
\* description-start keyword or contains an amount, "REF:" or an end-of-day marker.
C29_SectionLinesConsumed == [][SectionLineConsumed]_vars

\* C29 witness: with the section on and a transaction open that has an amount, a line that
\* begins with "Plata" and holds "CONT", an amount, "REF:" and "RULAJ ZI" was processed and
\* the transaction is still open and as it was
C29_Witness ==
  /\ i = 6
  /\ lines[5] = "Plata in CONT 1.00 REF:1 RULAJ ZI"
  /\ rule = "section"
  /\ transactions = <<>>
  /\ transaction =
       Some([date |-> Some("12/05/2024"), description |-> "Plata X ",
             amount |-> Some(Num(FALSE, 5, "")), type |-> Some("expense"), reference |-> null,
             accountOwner |-> null])

\* C30: validateIbanRealTime is consistent along a typing sequence: for every IBAN
\* accepted by validateIban, every prefix of its cleaned form (0 to 24 characters) is
\* accepted by validateIbanRealTime; and once a cleaned prefix of fewer than 24 characters
\* is rejected, every extension of that prefix is rejected as well.
C30_TypingIsConsistent ==
  /\ Accepted(validateIban(iban.x))
       => /\ iban.ry = null
          /\ Accepted(iban.rx)
          /\ Accepted(validateIbanRealTime(cleanIban(iban.y)))
          /\ Len(cleanIban(iban.y)) \in 0..24
  /\ iban.ry # null
       => /\ ~Accepted(iban.rx)
          /\ ~Accepted(validateIbanRealTime(cleanIban(iban.y)))
          /\ SubSeq(cleanIban(iban.y), 1, Len(iban.ry[1])) = iban.ry[1]

\* C30 witness: an IBAN with a wrong character in its bank code was rejected from its
\* eighth character on and is rejected with all 24 characters typed
C30_Witness ==
  /\ iban.kind = "typing"
  /\ iban.y = iban.x
  /\ Len(iban.x) = 24
  /\ iban.ry # null /\ Len(iban.ry[1]) = 8
  /\ iban.rx = Returned(Invalid("Bank code must be 4 uppercase letters"))

====
